---------------------------- MODULE Spec2Model ----------------------------
(***************************************************************************)
(* Task-tracking backend (task_tracking_system): the task controller, the  *)
(* teams controller, the request validator and the e-mail dispatch, as a   *)
(* state machine over the MongoDB collections Users, Tasks and Teams.      *)
(*                                                                         *)
(* JavaScript values are records, so that values of different JavaScript   *)
(* types can be compared: a string is [str |-> <<characters>>], undefined  *)
(* is [undefined |-> TRUE], a number is [num |-> n], NaN is [nan |-> TRUE],*)
(* an ObjectId is [hex |-> 24-hex-digit?, key |-> which], a Date is        *)
(* [y, m, d] (calendar fields of the local date).                          *)
(* The sibling controllers that keep their entities in arrays              *)
(* (event-management, task-manager) follow, each on its own variables.     *)
(* The createdAt/updatedAt stamps that {timestamps: true} adds to a        *)
(* document are not modelled as document fields.                           *)
(***************************************************************************)
EXTENDS Integers, Sequences, FiniteSets, TLC

VARIABLES users,   \* collection Users: set of user documents
          tasks,   \* collection Tasks: function _id -> task document
          teams,   \* collection Teams: function _id -> team document
          nextId,  \* number of ObjectIds generated so far for new documents
          req,     \* the request just handled (none between requests)
          resp,    \* the response written to res for req
          outbox,  \* sendEmail calls made while handling req, with outcome
          pending, \* per client: its handler suspended at an await
          now,     \* the server's clock (Date.now), in ticks
          events,      \* event-management: the events array
          globalCount, \* event-management: the counter that numbers events
          taskArray    \* task-manager: the tasks array of its controller

vars == <<users, tasks, teams, nextId, req, resp, outbox, pending, now, events, globalCount, taskArray>>

----------------------------------------------------------------------------
(* JavaScript values *)

Undefined == [undefined |-> TRUE]
NaN == [nan |-> TRUE]
Num(n) == [num |-> n]
S(chars) == [str |-> chars]
Arr(elements) == [arr |-> elements]
IsString(v) == "str" \in DOMAIN v

\* n copies of the character c
Repeat(c, n) == [i \in 1..n |-> c]

Digits == <<"0", "1", "2", "3", "4", "5", "6", "7", "8", "9">>
IsDigit(c) == \E i \in 1..10 : Digits[i] = c
DigitValue(c) == (CHOOSE i \in 1..10 : Digits[i] = c) - 1
IsSpace(c) == c = " "

\* String.prototype.trim
RECURSIVE TrimLeft(_)
TrimLeft(s) == IF s # <<>> /\ IsSpace(Head(s)) THEN TrimLeft(Tail(s)) ELSE s
RECURSIVE TrimRight(_)
TrimRight(s) ==
    IF s # <<>> /\ IsSpace(s[Len(s)]) THEN TrimRight(SubSeq(s, 1, Len(s) - 1))
    ELSE s
Trim(s) == TrimRight(TrimLeft(s))

\* String.prototype.split(sep) for a one-character separator
RECURSIVE SplitFrom(_, _, _)
SplitFrom(s, sep, cur) ==
    IF s = <<>> THEN <<cur>>
    ELSE IF Head(s) = sep THEN <<cur>> \o SplitFrom(Tail(s), sep, <<>>)
    ELSE SplitFrom(Tail(s), sep, Append(cur, Head(s)))
Split(s, sep) == SplitFrom(s, sep, <<>>)

\* Number(string), for strings over digits, letters and spaces: surrounding
\* white space is dropped, the empty string is 0, a run of decimal digits is
\* its value, anything else is NaN.
RECURSIVE DecimalValue(_, _)
DecimalValue(s, acc) ==
    IF s = <<>> THEN acc ELSE DecimalValue(Tail(s), 10 * acc + DigitValue(Head(s)))
Number(s) ==
    LET t == Trim(s) IN
    IF \A i \in 1..Len(t) : IsDigit(t[i]) THEN Num(DecimalValue(t, 0)) ELSE NaN
isNaN(v) == v = NaN

----------------------------------------------------------------------------
(* enums/taskstatus, as imported by the controller and the schema *)

OPEN == S(<<"o", "p", "e", "n">>)
CLOSED == S(<<"c", "l", "o", "s", "e", "d">>)
TaskStatus == {OPEN, CLOSED}

TitleMinLength == 5
TitleMaxLength == 100
DescriptionMaxLength == 1000

----------------------------------------------------------------------------
(* taskcontroller.js: helpers *)

\* isEmpty that does not trim the string
isEmptyWithoutTrim(value) ==
    \/ value = Undefined
    \/ IsString(value) /\ value.str = <<>>

\* isEmpty(value): null/undefined, or a string that trims to "".  (The array
\* and object branches do not apply to the values of a task payload.)
isEmpty(value) ==
    \/ value = Undefined
    \/ IsString(value) /\ Trim(value.str) = <<>>

\* Field f of a request body; a field the body lacks reads as undefined.
Field(body, f) == IF f \in DOMAIN body THEN body[f] ELSE Undefined

\* JavaScript truthiness of a string-or-undefined value
Truthy(v) == v # Undefined /\ ~(IsString(v) /\ v.str = <<>>)

IsLeapYear(y) == (y % 4 = 0 /\ y % 100 # 0) \/ y % 400 = 0
DaysInMonth(m, y) ==
    IF m = 2 THEN (IF IsLeapYear(y) THEN 29 ELSE 28)
    ELSE IF m \in {4, 6, 9, 11} THEN 30
    ELSE 31

\* new Date(year, monthIndex, day): a two-digit year counts from 1900, and a
\* day past the end of the month rolls over into the following month(s).
RECURSIVE NormalizeDate(_, _, _)
NormalizeDate(y, m, d) ==
    IF m > 12 THEN NormalizeDate(y + 1, m - 12, d)
    ELSE IF d > DaysInMonth(m, y) THEN NormalizeDate(y, m + 1, d - DaysInMonth(m, y))
    ELSE [y |-> y, m |-> m, d |-> d]
NewDate(year, monthIndex, day) ==
    NormalizeDate(IF year \in 0..99 THEN 1900 + year ELSE year, monthIndex + 1, day)

\* parseDate(dateString)
parseDate(dateString) ==
    LET parts == Split(dateString.str, "-")
        day == Number(parts[1])
        month == Number(parts[2])
        year == Number(parts[3])
    IN NewDate(year.num, month.num - 1, day.num)

----------------------------------------------------------------------------
(* taskcontroller.js: validateTask *)

MsgTitleBlank == "Bad Request : Title cannot be blank"
MsgTitleLength == "Bad Request: Title must be between 5 and 100 characters long."
MsgDescriptionBlank == "Bad Request : Description cannot be blank"
MsgDescriptionLength == "Bad Request: Description must not exceed 500 characters."
MsgStatusInvalid ==
    "Bad Request : Invalid Task Status. Status must be either open or closed"
MsgStatusBlank == "Bad Request : Status cannot be blank"
MsgDueDateBlank == "Bad Request : Due Date cannot be blank"
MsgDueDateFormat == "Bad Request : Invalid due date format"
MsgDueDateInvalid == "Bad Request : Invalid due date"
PassedToNext == "next()"

\* The due-date block of validateTask (dueDate is a non-blank string here).
validateDueDate(dueDate) ==
    LET dateParts == Split(dueDate.str, "-") IN
    IF Len(dateParts) # 3 THEN MsgDueDateFormat
    ELSE LET day == Number(dateParts[1])
             month == Number(dateParts[2])
             year == Number(dateParts[3])
         IN IF \/ isNaN(day) \/ isNaN(month) \/ isNaN(year)
               \/ month.num < 1 \/ month.num > 12
               \/ day.num < 1 \/ day.num > 31
            THEN MsgDueDateInvalid
            ELSE PassedToNext

\* The status block of validateTask: first the membership test, then isEmpty.
validateStatus(status) ==
    IF status \notin TaskStatus THEN MsgStatusInvalid
    ELSE IF isEmpty(status) THEN MsgStatusBlank
    ELSE PassedToNext

\* validateTask without the rule on the length of the title
validateTaskSkipsTitleLength(body) ==
    LET title == Field(body, "title")
        description == Field(body, "description")
        status == Field(body, "status")
        dueDate == Field(body, "dueDate")
    IN IF isEmpty(title) THEN MsgTitleBlank
       ELSE IF isEmpty(description) THEN MsgDescriptionBlank
       ELSE IF Len(description.str) > DescriptionMaxLength THEN MsgDescriptionLength
       ELSE IF validateStatus(status) # PassedToNext THEN validateStatus(status)
       ELSE IF isEmpty(dueDate) THEN MsgDueDateBlank
       ELSE validateDueDate(dueDate)

\* validateTask(req, res, next): the text sent with status 400, or next().
validateTask(body) ==
    LET title == Field(body, "title")
        description == Field(body, "description")
        status == Field(body, "status")
        dueDate == Field(body, "dueDate")
    IN IF isEmpty(title) THEN MsgTitleBlank
       ELSE IF Len(title.str) < TitleMinLength \/ Len(title.str) > TitleMaxLength
         THEN MsgTitleLength
       ELSE IF isEmpty(description) THEN MsgDescriptionBlank
       ELSE IF Len(description.str) > DescriptionMaxLength THEN MsgDescriptionLength
       ELSE IF validateStatus(status) # PassedToNext THEN validateStatus(status)
       ELSE IF isEmpty(dueDate) THEN MsgDueDateBlank
       ELSE validateDueDate(dueDate)


----------------------------------------------------------------------------
(* Documents, ObjectIds and the mongoose operations the handlers use *)

Null == [null |-> TRUE]

\* An ObjectId (or a string offered as one): hex says whether it is
\* well-formed (24 hex digits), key tells well-formed ids apart.
OID(k) == [hex |-> TRUE, key |-> k]
MalformedId == [hex |-> FALSE, key |-> "not-an-id"]
ObjectIdIsValid(id) == id # Undefined /\ id.hex

\* Outcome of a statement that threw: the error caught by the handler's catch.
Threw(name, errmsg) == [threw |-> TRUE, name |-> name, errmsg |-> errmsg]
HasThrown(v) == "threw" \in DOMAIN v
\* Outcome of a save() that succeeded: the collection after it
Saved(coll) == [saved |-> coll]

\* Model.findById(id) on a collection held as a function _id -> document:
\* the document, null when there is none (or id is undefined), and a
\* CastError when the id is not well-formed.
findById(coll, id) ==
    IF id = Undefined THEN Null
    ELSE IF ~ObjectIdIsValid(id) THEN Threw("CastError", Undefined)
    ELSE IF id \in DOMAIN coll THEN coll[id]
    ELSE Null

\* The collection with document doc stored under its _id
Put(coll, doc) ==
    [i \in DOMAIN coll \cup {doc._id} |-> IF i = doc._id THEN doc ELSE coll[i]]
\* The collection without the document of that _id
Remove(coll, id) == [i \in DOMAIN coll \ {id} |-> coll[i]]

----------------------------------------------------------------------------
(* models: taskSchema *)

\* The validators of taskSchema, run by save() and by runValidators
TaskSchemaValid(doc) ==
    /\ IsString(doc.title) /\ doc.title.str # <<>>
    /\ Len(doc.title.str) >= TitleMinLength
    /\ Len(doc.title.str) <= TitleMaxLength
    /\ IsString(doc.description) /\ doc.description.str # <<>>
    /\ Len(doc.description.str) <= DescriptionMaxLength
    /\ doc.status \in TaskStatus

DuplicateKeyMsg == S(<<"E", "1", "1", "0", "0", "0">>)

\* save() of a task on a collection without the unique index on title
SaveTaskWithoutIndex(coll, doc) ==
    IF ~TaskSchemaValid(doc) THEN Threw("ValidationError", Undefined)
    ELSE Saved(Put(coll, doc))

\* document.save() of a task: the collection after the save, or the error
\* thrown: a ValidationError (no errmsg) or the unique index on title
\* (E11000, with an errmsg).
SaveTask(coll, doc) ==
    IF ~TaskSchemaValid(doc) THEN Threw("ValidationError", Undefined)
    ELSE IF \E i \in DOMAIN coll : i # doc._id /\ coll[i].title = doc.title
      THEN Threw("E11000", DuplicateKeyMsg)
    ELSE Saved(Put(coll, doc))

----------------------------------------------------------------------------
(* Responses *)

HTTP_SUCCESS == 200
HTTP_CREATED == 201
HTTP_BAD_REQUEST == 400
HTTP_FORBIDDEN == 403
HTTP_NOT_FOUND == 404
HTTP_INTERNAL_SERVER_ERROR == 500

\* res.status(code).send(text) / .json(value)
Text(t) == [text |-> t]
Response(code, body) == [status |-> code, body |-> body]
\* The catch block of the task handlers: 500 with err.errmsg
CatchResponse(err) == Response(HTTP_INTERNAL_SERVER_ERROR, err.errmsg)
\* No response has been written (yet, or ever)
NoResponse == [status |-> 0, body |-> Undefined]

\* What a handler yields: the Tasks collection, the response, and the
\* mailOptions it handed to sendEmail.
Outcome(coll, response, mails) == [tasks |-> coll, resp |-> response, mails |-> mails]

----------------------------------------------------------------------------
(* service/emailservice.js and populateEmailForAssignee *)

SubjectUpdate == "Task Update Notification"
SubjectAssignment == "Task Assignment Notification"

\* Date.prototype.toLocaleString: the formatted date names day, month, year
toLocaleString(date) == <<date.d, date.m, date.y>>

\* populateEmailForAssignee(task, user, isUpdate): the mailOptions, or the
\* TypeError of task.dueDate.toLocaleString when the task has no due date.
\* A property that user lacks reads as undefined.
populateEmailForAssignee(task, user, isUpdate) ==
    IF task.dueDate \in {Undefined, Null} THEN Threw("TypeError", Undefined)
    ELSE [to |-> Field(user, "email"),
          subject |-> IF isUpdate THEN SubjectUpdate ELSE SubjectAssignment,
          greeting |-> <<Field(user, "firstName"), Field(user, "lastName")>>,
          title |-> task.title,
          completeBy |-> IF isUpdate THEN <<>> ELSE toLocaleString(task.dueDate)]

\* Mutant of sendEmail: the transport's error escapes to the caller.
sendEmailRethrows(mailOptions, transport) ==
    IF transport = "failed" THEN "threw" ELSE "returned"

\* sendEmail(mailOptions), transport telling whether transporter.sendMail
\* delivers ("sent") or rejects ("failed"): the rejection is caught and
\* logged inside sendEmail, so the call always returns to its caller.
sendEmail(mailOptions, transport) == "returned"

\* The outcomes the transport can have for a message: one without a
\* recipient address is never delivered.
TransportOutcomes(mailOptions) ==
    IF IsString(mailOptions.to) THEN {"sent", "failed"} ELSE {"failed"}

----------------------------------------------------------------------------
(* taskcontroller.js: the route handlers.  Each takes the Tasks collection  *)
(* (and what else it reads) and yields an Outcome.                          *)

\* The ObjectId mongoose gives the n-th document created
TaskKeys == <<"t1", "t2", "t3", "t4", "t5", "t6">>
NewTaskId(n) == OID(TaskKeys[n])

\* POST /tasks (validateTask, then the handler); n ids were generated before.
PostTask(coll, n, body) ==
    IF validateTask(body) # PassedToNext
    THEN Outcome(coll, Response(HTTP_BAD_REQUEST, Text(validateTask(body))), <<>>)
    ELSE
    LET dueDate == Field(body, "dueDate")
        parsedDueDate == IF Truthy(dueDate) THEN parseDate(dueDate) ELSE Null
        newTask == [_id |-> NewTaskId(n + 1),
                    title |-> Field(body, "title"),
                    description |-> Field(body, "description"),
                    status |-> Field(body, "status"),
                    dueDate |-> parsedDueDate,
                    assignedTo |-> Undefined,
                    comments |-> <<>>]
        saved == SaveTask(coll, newTask)
    IN IF HasThrown(saved) THEN Outcome(coll, CatchResponse(saved), <<>>)
       ELSE Outcome(saved.saved, Response(HTTP_CREATED, newTask), <<>>)

\* `updatedTaskData.f || task.f` in PUT /tasks/:id: no variable `task` is in
\* scope there, so evaluating the right-hand side is a ReferenceError.
OrTaskField(v) == IF Truthy(v) THEN v ELSE Threw("ReferenceError", Undefined)

\* PUT /tasks/:id (validateTask, then the handler); transport is how the
\* send collaborator ends if a mail is sent.
PutTask(coll, users_, id, body, transport) ==
    IF validateTask(body) # PassedToNext
    THEN Outcome(coll, Response(HTTP_BAD_REQUEST, Text(validateTask(body))), <<>>)
    ELSE
    LET dueDate == Field(body, "dueDate")
        parsedDueDate == IF Truthy(dueDate) THEN parseDate(dueDate) ELSE Null
        taskfromDB == findById(coll, id)
        title == OrTaskField(Field(body, "title"))
        description == OrTaskField(Field(body, "description"))
        status == OrTaskField(Field(body, "status"))
        due == IF parsedDueDate # Null THEN parsedDueDate
               ELSE Threw("ReferenceError", Undefined)
        changed == [taskfromDB EXCEPT !.title = title, !.description = description,
                                      !.status = status, !.dueDate = due]
        saved == SaveTask(coll, changed)
        mailOptions == populateEmailForAssignee(changed, changed.assignedTo, TRUE)
    IN IF HasThrown(taskfromDB) THEN Outcome(coll, CatchResponse(taskfromDB), <<>>)
       ELSE IF taskfromDB = Null
         THEN Outcome(coll, Response(HTTP_NOT_FOUND, Text("TASK_NOT_FOUND")), <<>>)
       ELSE IF HasThrown(title) THEN Outcome(coll, CatchResponse(title), <<>>)
       ELSE IF HasThrown(description) THEN Outcome(coll, CatchResponse(description), <<>>)
       ELSE IF HasThrown(status) THEN Outcome(coll, CatchResponse(status), <<>>)
       ELSE IF HasThrown(due) THEN Outcome(coll, CatchResponse(due), <<>>)
       ELSE IF HasThrown(saved) THEN Outcome(coll, CatchResponse(saved), <<>>)
       ELSE IF changed.assignedTo = Undefined
         THEN Outcome(saved.saved, Response(HTTP_SUCCESS, changed), <<>>)
       ELSE IF HasThrown(mailOptions)
         THEN Outcome(saved.saved, CatchResponse(mailOptions), <<>>)
       ELSE IF sendEmail(mailOptions, transport) = "threw"
         THEN Outcome(saved.saved, CatchResponse(Threw("Error", Undefined)),
                      <<mailOptions>>)
       ELSE Outcome(saved.saved, Response(HTTP_SUCCESS, changed), <<mailOptions>>)

\* The user document of that _id in the Users collection (a set)
UsersById(users_) == [i \in {u._id : u \in users_} |-> CHOOSE u \in users_ : u._id = i]

\* PUT /tasks/:id/assign: userExists, taskExists, then the handler
AssignTask(coll, users_, id, body, transport) ==
    LET assignedTo == Field(body, "assignedTo")
        user == findById(UsersById(users_), assignedTo)
        task == findById(coll, id)
        updatedTask == [task EXCEPT !.assignedTo = assignedTo]
        mailOptions == populateEmailForAssignee(updatedTask, user, FALSE)
    IN \* userExists
       IF HasThrown(user) THEN Outcome(coll, CatchResponse(user), <<>>)
       ELSE IF user = Null
         THEN Outcome(coll, Response(HTTP_BAD_REQUEST, Text("User not found")), <<>>)
       \* taskExists
       ELSE IF HasThrown(task) THEN Outcome(coll, CatchResponse(task), <<>>)
       ELSE IF task = Null
         THEN Outcome(coll, Response(HTTP_NOT_FOUND, Text("Task not found")), <<>>)
       \* the handler: findByIdAndUpdate(taskId, {assignedTo}, {new: true})
       ELSE IF HasThrown(mailOptions)
         THEN Outcome(Put(coll, updatedTask), CatchResponse(mailOptions), <<>>)
       ELSE IF sendEmail(mailOptions, transport) = "threw"
         THEN Outcome(Put(coll, updatedTask), CatchResponse(Threw("Error", Undefined)),
                      <<mailOptions>>)
       ELSE Outcome(Put(coll, updatedTask), Response(HTTP_SUCCESS, updatedTask),
                    <<mailOptions>>)

\* Mutant of PATCH /tasks/:id/complete: a task that is already closed is
\* refused instead of being closed again.
CompleteTaskRefusesClosed(coll, id) ==
    IF ~ObjectIdIsValid(id)
    THEN Outcome(coll, Response(HTTP_BAD_REQUEST, Text("Invalid task ID")), <<>>)
    ELSE IF findById(coll, id) = Null
      THEN Outcome(coll, Response(HTTP_NOT_FOUND, Text("Task not found")), <<>>)
    ELSE IF coll[id].status = CLOSED
      THEN Outcome(coll, Response(HTTP_BAD_REQUEST, Text("Task already closed")), <<>>)
    ELSE LET task == [coll[id] EXCEPT !.status = CLOSED]
         IN Outcome(Put(coll, task), Response(HTTP_SUCCESS, task), <<>>)

\* PATCH /tasks/:id/complete
CompleteTask(coll, id) ==
    IF ~ObjectIdIsValid(id)
    THEN Outcome(coll, Response(HTTP_BAD_REQUEST, Text("Invalid task ID")), <<>>)
    ELSE IF findById(coll, id) = Null
      THEN Outcome(coll, Response(HTTP_NOT_FOUND, Text("Task not found")), <<>>)
    ELSE LET task == [coll[id] EXCEPT !.status = CLOSED]
         IN Outcome(Put(coll, task), Response(HTTP_SUCCESS, task), <<>>)

\* Task.find(filter): the documents the filter selects (those of the ids
\* selected), as an array in the order in which they were created
FindTasks(coll, selected) ==
    LET ids == SelectSeq([i \in 1..Len(TaskKeys) |-> NewTaskId(i)],
                         LAMBDA id : id \in DOMAIN coll /\ id \in selected)
    IN Arr([i \in 1..Len(ids) |-> coll[ids[i]]])

\* Letter case, as the "i" option of $regex folds it
LowerCase == <<"a", "b", "c", "d", "e", "f", "g", "h", "i", "j", "k", "l", "m",
               "n", "o", "p", "q", "r", "s", "t", "u", "v", "w", "x", "y", "z">>
UpperCase == <<"A", "B", "C", "D", "E", "F", "G", "H", "I", "J", "K", "L", "M",
               "N", "O", "P", "Q", "R", "S", "T", "U", "V", "W", "X", "Y", "Z">>
ToLowerCase(c) ==
    IF \E i \in 1..Len(UpperCase) : UpperCase[i] = c
    THEN LowerCase[CHOOSE i \in 1..Len(UpperCase) : UpperCase[i] = c]
    ELSE c

\* { $regex: query, $options: "i" }: query is a regular expression.  Of the
\* expression syntax: "." stands for any character, an unclosed "(" makes
\* the expression invalid (the server rejects the find), every other
\* character of the inputs stands for itself, case folded.
RegexIsValid(query) == \A i \in 1..Len(query) : query[i] # "("
RegexMatchesAt(query, str, at) ==
    \A j \in 1..Len(query) :
        \/ query[j] = "."
        \/ ToLowerCase(query[j]) = ToLowerCase(str[at + j - 1])
RegexMatches(query, str) ==
    \E at \in 1..(Len(str) - Len(query) + 1) : RegexMatchesAt(query, str, at)

\* GET /tasks/search?query=...
SearchTasks(coll, query) ==
    IF ~Truthy(query)
    THEN Outcome(coll, Response(HTTP_BAD_REQUEST,
                 Text("Bad Request: Query parameter 'query' is required.")), <<>>)
    ELSE IF ~RegexIsValid(query.str)
      THEN Outcome(coll, CatchResponse(Threw("MongoServerError",
                         S(<<"R", "e", "g", "e", "x">>))), <<>>)
    ELSE LET found == FindTasks(coll, {id \in DOMAIN coll :
                          \/ RegexMatches(query.str, coll[id].title.str)
                          \/ RegexMatches(query.str, coll[id].description.str)})
         IN IF Len(found.arr) = 0
            THEN Outcome(coll, Response(HTTP_NOT_FOUND,
                         Text("No tasks found matching the search criteria.")), <<>>)
            ELSE Outcome(coll, Response(HTTP_SUCCESS, found), <<>>)

\* GET /tasks that ignores the status asked for
ListTasksUnfiltered(coll, status) ==
    LET found == FindTasks(coll, DOMAIN coll)
    IN IF Len(found.arr) = 0
       THEN Outcome(coll, Response(HTTP_NOT_FOUND, Text("No tasks found")), <<>>)
       ELSE Outcome(coll, Response(HTTP_SUCCESS, found), <<>>)

\* GET /tasks?status=... (the first of the two handlers registered for GET
\* /tasks; the second is never reached)
ListTasks(coll, status) ==
    IF Truthy(status) /\ status \notin TaskStatus
    THEN Outcome(coll, Response(HTTP_BAD_REQUEST, Text("Invalid task status")), <<>>)
    ELSE LET found == FindTasks(coll, {id \in DOMAIN coll :
                          Truthy(status) => coll[id].status = status})
         IN IF Len(found.arr) = 0
            THEN Outcome(coll, Response(HTTP_NOT_FOUND, Text("No tasks found")), <<>>)
            ELSE Outcome(coll, Response(HTTP_SUCCESS, found), <<>>)

\* commentSchema: user and text are required, text has a maximal length.
\* (The _id and createdAt that mongoose gives a comment are not modelled.)
CommentTextMaxLength == 1000
CommentSchemaValid(comment) ==
    /\ comment.user # Undefined
    /\ IsString(comment.text) /\ comment.text.str # <<>>
    /\ Len(comment.text.str) <= CommentTextMaxLength

\* POST /tasks/:taskId/comments with the comment put before the others
AddCommentInFront(coll, reqUser, taskId, body) ==
    LET task == findById(coll, taskId)
        comment == [user |-> Field(reqUser, "id"), text |-> Field(body, "text")]
    IN IF HasThrown(task)
       THEN Outcome(coll, Response(HTTP_INTERNAL_SERVER_ERROR, Text("err.message")), <<>>)
       ELSE IF task = Null
         THEN Outcome(coll, Response(HTTP_NOT_FOUND, Text("Task not found")), <<>>)
       ELSE LET pushed == [task EXCEPT !.comments = <<comment>> \o @]
            IN Outcome(Put(coll, pushed), Response(HTTP_CREATED, pushed), <<>>)

\* POST /tasks/:taskId/comments; its catch block answers 500 with err.message
AddComment(coll, reqUser, taskId, body) ==
    LET task == findById(coll, taskId)
        comment == [user |-> Field(reqUser, "id"), text |-> Field(body, "text")]
        InternalError == Response(HTTP_INTERNAL_SERVER_ERROR, Text("err.message"))
    IN IF HasThrown(task) THEN Outcome(coll, InternalError, <<>>)
       ELSE IF task = Null
         THEN Outcome(coll, Response(HTTP_NOT_FOUND, Text("Task not found")), <<>>)
       ELSE LET pushed == [task EXCEPT !.comments = Append(@, comment)]
                saved == IF CommentSchemaValid(comment) THEN SaveTask(coll, pushed)
                         ELSE Threw("ValidationError", Undefined)
            IN IF HasThrown(saved) THEN Outcome(coll, InternalError, <<>>)
               ELSE Outcome(saved.saved, Response(HTTP_CREATED, pushed), <<>>)

\* A document that findById returned is a copy; save() writes back the paths
\* set to a value other than the one read, and an array push as a $push.

\* The paths of the four that PUT /tasks/:id assigns which differ in doc
\* from the document read
ModifiedPaths(snapshot, doc) ==
    {f \in {"title", "description", "status", "dueDate"} : doc[f] # snapshot[f]}

\* save() that writes the whole document back
SaveWhole(coll, doc, paths) == SaveTask(coll, doc)

\* doc.save() with those paths modified: validation, then updateOne with a
\* $set of the modified paths (none: nothing is sent); the unique index on
\* title is checked by the store against the documents it holds then.
SaveModified(coll, doc, paths) ==
    IF ~TaskSchemaValid(doc) THEN Threw("ValidationError", Undefined)
    ELSE IF paths = {} THEN Saved(coll)
    ELSE IF doc._id \notin DOMAIN coll THEN Threw("DocumentNotFoundError", Undefined)
    ELSE IF "title" \in paths
            /\ \E i \in DOMAIN coll : i # doc._id /\ coll[i].title = doc.title
      THEN Threw("E11000", DuplicateKeyMsg)
    ELSE Saved([coll EXCEPT ![doc._id] =
                  [f \in DOMAIN @ |-> IF f \in paths THEN doc[f] ELSE @[f]]])

\* save() that writes the comments of the copy back as a whole
SetComments(coll, doc, comment) ==
    IF doc._id \notin DOMAIN coll THEN Threw("DocumentNotFoundError", Undefined)
    ELSE Saved([coll EXCEPT ![doc._id].comments = doc.comments])

\* doc.save() after doc.comments.push(comment): validation, then updateOne
\* with a $push of the comment
PushComment(coll, doc, comment) ==
    IF ~TaskSchemaValid(doc) \/ ~CommentSchemaValid(comment)
    THEN Threw("ValidationError", Undefined)
    ELSE IF doc._id \notin DOMAIN coll THEN Threw("DocumentNotFoundError", Undefined)
    ELSE Saved([coll EXCEPT ![doc._id].comments = Append(@, comment)])

\* PUT /tasks/:id up to the end of `await Task.findById(...)` and the four
\* assignments: a response, or the copy to save with its modified paths
PutTaskRead(coll, id, body) ==
    IF validateTask(body) # PassedToNext
    THEN [resp |-> Response(HTTP_BAD_REQUEST, Text(validateTask(body)))]
    ELSE
    LET dueDate == Field(body, "dueDate")
        parsedDueDate == IF Truthy(dueDate) THEN parseDate(dueDate) ELSE Null
        taskfromDB == findById(coll, id)
        title == OrTaskField(Field(body, "title"))
        description == OrTaskField(Field(body, "description"))
        status == OrTaskField(Field(body, "status"))
        due == IF parsedDueDate # Null THEN parsedDueDate
               ELSE Threw("ReferenceError", Undefined)
        changed == [taskfromDB EXCEPT !.title = title, !.description = description,
                                      !.status = status, !.dueDate = due]
    IN IF HasThrown(taskfromDB) THEN [resp |-> CatchResponse(taskfromDB)]
       ELSE IF taskfromDB = Null
         THEN [resp |-> Response(HTTP_NOT_FOUND, Text("TASK_NOT_FOUND"))]
       ELSE IF HasThrown(title) THEN [resp |-> CatchResponse(title)]
       ELSE IF HasThrown(description) THEN [resp |-> CatchResponse(description)]
       ELSE IF HasThrown(status) THEN [resp |-> CatchResponse(status)]
       ELSE IF HasThrown(due) THEN [resp |-> CatchResponse(due)]
       ELSE [doc |-> changed, paths |-> ModifiedPaths(taskfromDB, changed)]

\* PUT /tasks/:id from `await taskfromDB.save()` on: the collection, the
\* response and the mail handed to sendEmail
PutTaskSave(coll, doc, paths) ==
    LET saved == SaveModified(coll, doc, paths)
        mailOptions == populateEmailForAssignee(doc, doc.assignedTo, TRUE)
    IN IF HasThrown(saved) THEN Outcome(coll, CatchResponse(saved), <<>>)
       ELSE IF doc.assignedTo = Undefined
         THEN Outcome(saved.saved, Response(HTTP_SUCCESS, doc), <<>>)
       ELSE IF HasThrown(mailOptions)
         THEN Outcome(saved.saved, CatchResponse(mailOptions), <<>>)
       ELSE Outcome(saved.saved, Response(HTTP_SUCCESS, doc), <<mailOptions>>)

\* POST /tasks/:taskId/comments up to the push: a response, or the copy to
\* save and the comment pushed, whose createdAt is the time of the push
AddCommentRead(coll, reqUser, taskId, body, time) ==
    LET task == findById(coll, taskId)
        comment == [user |-> Field(reqUser, "id"), text |-> Field(body, "text"),
                    createdAt |-> time]
    IN IF HasThrown(task)
       THEN [resp |-> Response(HTTP_INTERNAL_SERVER_ERROR, Text("err.message"))]
       ELSE IF task = Null
         THEN [resp |-> Response(HTTP_NOT_FOUND, Text("Task not found"))]
       ELSE [doc |-> [task EXCEPT !.comments = Append(@, comment)],
             comment |-> comment]

\* POST /tasks/:taskId/comments from `await task.save()` on
AddCommentSave(coll, doc, comment) ==
    LET saved == PushComment(coll, doc, comment)
    IN IF HasThrown(saved)
       THEN Outcome(coll, Response(HTTP_INTERNAL_SERVER_ERROR, Text("err.message")), <<>>)
       ELSE Outcome(saved.saved, Response(HTTP_CREATED, doc), <<>>)

\* GET /tasks/:id
GetTask(coll, id) ==
    LET task == findById(coll, id)
    IN IF HasThrown(task) THEN Outcome(coll, CatchResponse(task), <<>>)
       ELSE IF task = Null
         THEN Outcome(coll, Response(HTTP_NOT_FOUND, Text("TASK_NOT_FOUND(id)")), <<>>)
       ELSE Outcome(coll, Response(HTTP_SUCCESS, task), <<>>)

\* DELETE /tasks/:id
DeleteTask(coll, id) ==
    LET task == findById(coll, id)
    IN IF HasThrown(task) THEN Outcome(coll, CatchResponse(task), <<>>)
       ELSE IF task = Null
         THEN Outcome(coll, Response(HTTP_NOT_FOUND, Text("TASK_NOT_FOUND(id)")), <<>>)
       ELSE Outcome(Remove(coll, id), Response(HTTP_SUCCESS, task), <<>>)

----------------------------------------------------------------------------
(* models: teamSchema; app.js sharedMiddleware; teamscontroller.js *)

TeamNameMinLength == 3
TeamNameMaxLength == 100
TeamDescriptionMaxLength == 1000

\* The validators of teamSchema, run by save()
TeamSchemaValid(doc) ==
    /\ IsString(doc.name) /\ doc.name.str # <<>>
    /\ Len(doc.name.str) >= TeamNameMinLength
    /\ Len(doc.name.str) <= TeamNameMaxLength
    /\ IsString(doc.description) => Len(doc.description.str) <= TeamDescriptionMaxLength
    /\ doc.createdBy # Undefined

\* document.save() of a team: the collection after the save, or the error
\* thrown (a ValidationError, or E11000 from the unique index on name).
SaveTeam(coll, doc) ==
    IF ~TeamSchemaValid(doc) THEN Threw("ValidationError", Undefined)
    ELSE IF \E i \in DOMAIN coll : i # doc._id /\ coll[i].name = doc.name
      THEN Threw("E11000", DuplicateKeyMsg)
    ELSE Saved(Put(coll, doc))

\* The payload POST /login signs into the token; sharedMiddleware makes the
\* decoded payload req.user.
TokenPayload(user) ==
    [email |-> user.email, id |-> user._id,
     firstName |-> user.firstName, lastName |-> user.lastName]

\* The catch block of the team handlers: for E11000 it reads RESPONSE_MESSAGES,
\* which teamscontroller.js never imports, so the catch block itself throws
\* and no response is written; any other error is a 500 with err.message.
TeamCatchResponse(err) ==
    IF err.name = "E11000" THEN NoResponse
    ELSE Response(HTTP_INTERNAL_SERVER_ERROR, Text(err.name))

\* User.find({email: {$in: memberEmails}}): the users with one of the emails
FindUsersByEmail(users_, memberEmails) ==
    {u \in users_ : \E i \in 1..Len(memberEmails.arr) : memberEmails.arr[i] = u.email}

TeamOutcome(coll, response) == [teams |-> coll, resp |-> response]

TeamKeys == <<"g1", "g2", "g3", "g4", "g5", "g6">>
NewTeamId(n) == OID(TeamKeys[n])

\* Mutant of POST /teams: the request goes on when at least one of the
\* emails resolves (members.length === 0 instead of !== memberEmails.length).
PostTeamAcceptsPartial(coll, users_, n, reqUser, body) ==
    LET name == Field(body, "name")
        description == Field(body, "description")
        memberEmails == Field(body, "memberEmails")
        members == FindUsersByEmail(users_, memberEmails)
        team == [_id |-> NewTeamId(n + 1),
                 name |-> name,
                 description |-> description,
                 members |-> {m._id : m \in members},
                 createdBy |-> Field(reqUser, "_id")]
        saved == SaveTeam(coll, team)
    IN IF ~Truthy(name) \/ memberEmails = Undefined
       THEN TeamOutcome(coll, Response(HTTP_BAD_REQUEST,
                                       Text("Name and member emails are required")))
       ELSE IF Cardinality(members) = 0
         THEN TeamOutcome(coll, Response(HTTP_NOT_FOUND, Text("Some members not found")))
       ELSE IF team.createdBy = Undefined
         THEN TeamOutcome(coll, Response(HTTP_BAD_REQUEST,
                                         Text("Created by cannot be blank")))
       ELSE IF HasThrown(saved) THEN TeamOutcome(coll, TeamCatchResponse(saved))
       ELSE TeamOutcome(saved.saved, Response(HTTP_CREATED, team))

\* POST /teams without the check that name and memberEmails are given
PostTeamSkipsRequired(coll, users_, n, reqUser, body) ==
    LET name == Field(body, "name")
        description == Field(body, "description")
        memberEmails == IF Field(body, "memberEmails") = Undefined THEN Arr(<<>>)
                        ELSE Field(body, "memberEmails")
        members == FindUsersByEmail(users_, memberEmails)
        team == [_id |-> NewTeamId(n + 1),
                 name |-> name,
                 description |-> description,
                 members |-> {m._id : m \in members},
                 createdBy |-> Field(reqUser, "id")]
        saved == SaveTeam(coll, team)
    IN IF Cardinality(members) # Len(memberEmails.arr)
       THEN TeamOutcome(coll, Response(HTTP_NOT_FOUND, Text("Some members not found")))
       ELSE IF HasThrown(saved) THEN TeamOutcome(coll, TeamCatchResponse(saved))
       ELSE TeamOutcome(saved.saved, Response(HTTP_CREATED, team))

\* POST /teams; reqUser is req.user, n team ids were generated before.
PostTeam(coll, users_, n, reqUser, body) ==
    LET name == Field(body, "name")
        description == Field(body, "description")
        memberEmails == Field(body, "memberEmails")
        members == FindUsersByEmail(users_, memberEmails)
        team == [_id |-> NewTeamId(n + 1),
                 name |-> name,
                 description |-> description,
                 members |-> {m._id : m \in members},
                 createdBy |-> Field(reqUser, "_id")]
        saved == SaveTeam(coll, team)
    IN IF ~Truthy(name) \/ memberEmails = Undefined
       THEN TeamOutcome(coll, Response(HTTP_BAD_REQUEST,
                                       Text("Name and member emails are required")))
       ELSE IF Cardinality(members) # Len(memberEmails.arr)
         THEN TeamOutcome(coll, Response(HTTP_NOT_FOUND, Text("Some members not found")))
       ELSE IF team.createdBy = Undefined
         THEN TeamOutcome(coll, Response(HTTP_BAD_REQUEST,
                                         Text("Created by cannot be blank")))
       ELSE IF HasThrown(saved) THEN TeamOutcome(coll, TeamCatchResponse(saved))
       ELSE TeamOutcome(saved.saved, Response(HTTP_CREATED, team))

\* What a middleware yields when it calls next() instead of responding
NextCalled == [next |-> TRUE]

\* ObjectId.prototype.equals(other): false for undefined
ObjectIdEquals(id, other) == other # Undefined /\ id = other

\* Mutant of authorizeTeamEdit: the ownership test is left out.
authorizeTeamEditNoOwnerCheck(coll, reqUser, id) ==
    LET team == findById(coll, id)
    IN IF HasThrown(team) THEN TeamCatchResponse(team)
       ELSE IF team = Null THEN Response(HTTP_NOT_FOUND, Text("Team not found"))
       ELSE NextCalled

\* authorizeTeamEdit(req, res, next): the response it writes, or next()
authorizeTeamEdit(coll, reqUser, id) ==
    LET team == findById(coll, id)
    IN IF HasThrown(team) THEN TeamCatchResponse(team)
       ELSE IF team = Null THEN Response(HTTP_NOT_FOUND, Text("Team not found"))
       ELSE IF ~ObjectIdEquals(team.createdBy, Field(reqUser, "_id"))
         THEN Response(HTTP_FORBIDDEN, Text("You are not authorized to edit this team"))
       ELSE NextCalled

\* PUT /teams/:id (authorizeTeamEdit, then the handler)
PutTeam(coll, users_, reqUser, id, body) ==
    LET name == Field(body, "name")
        description == Field(body, "description")
        memberEmails == Field(body, "memberEmails")
        members == FindUsersByEmail(users_, memberEmails)
        team == findById(coll, id)
        named == IF Truthy(name) THEN [team EXCEPT !.name = name] ELSE team
        described == IF Truthy(description)
                     THEN [named EXCEPT !.description = description] ELSE named
        changed == IF memberEmails # Undefined
                   THEN [described EXCEPT !.members = {m._id : m \in members}]
                   ELSE described
        saved == SaveTeam(coll, changed)
    IN IF authorizeTeamEdit(coll, reqUser, id) # NextCalled
       THEN TeamOutcome(coll, authorizeTeamEdit(coll, reqUser, id))
       ELSE IF ~Truthy(name) /\ ~Truthy(description) /\ memberEmails = Undefined
         THEN TeamOutcome(coll, Response(HTTP_BAD_REQUEST, Text("Nothing to update")))
       ELSE IF memberEmails # Undefined /\ Cardinality(members) # Len(memberEmails.arr)
         THEN TeamOutcome(coll, Response(HTTP_NOT_FOUND, Text("Some members not found")))
       ELSE IF HasThrown(team) THEN TeamOutcome(coll, TeamCatchResponse(team))
       ELSE IF team = Null
         THEN TeamOutcome(coll, Response(HTTP_NOT_FOUND, Text("Team not found")))
       ELSE IF HasThrown(saved) THEN TeamOutcome(coll, TeamCatchResponse(saved))
       ELSE TeamOutcome(saved.saved, Response(HTTP_SUCCESS, changed))

----------------------------------------------------------------------------
(* The requests offered to the handlers *)

\* Number of task (team) ids that may be generated in a run
MaxCreates == 2
MaxTeamCreates == 1

UserJohn == [_id |-> OID("u1"), firstName |-> S(<<"J", "o">>), lastName |-> S(<<"D">>),
             email |-> S(<<"j", "@", "x">>)]
UserAnn == [_id |-> OID("u2"), firstName |-> S(<<"A", "n">>), lastName |-> S(<<"E">>),
            email |-> S(<<"a", "@", "x">>)]
RegisteredUsers == {UserJohn, UserAnn}
UnregisteredEmail == S(<<"z", "@", "x">>)
UnknownUserId == OID("u9")

Title1 == S(<<"T", "a", "s", "k", "1">>)
Title2 == S(<<"T", "a", "s", "k", "2">>)
Description1 == S(<<"d", "o">>)
Description2 == S(<<"r", "e", "d", "o">>)
Pending == S(<<"p", "e", "n", "d", "i", "n", "g">>)
Date_01_01_2025 == S(<<"0", "1", "-", "0", "1", "-", "2", "0", "2", "5">>)
Date_31_02_2025 == S(<<"3", "1", "-", "0", "2", "-", "2", "0", "2", "5">>)

TaskFields == {"title", "description", "status", "dueDate"}

\* A body with all four fields
FullPatch == [title |-> Title2, description |-> Description2,
              status |-> CLOSED, dueDate |-> Date_01_01_2025]

\* Bodies that pass validateTask
ValidBodies ==
    [title : {Title1, Title2}, description : {Description1},
     status : {OPEN, CLOSED}, dueDate : {Date_01_01_2025, Date_31_02_2025}]
      \cup {FullPatch}

\* Bodies that carry only some of the four fields
PartialBodies ==
    {[f \in fs |-> FullPatch[f]] : fs \in (SUBSET TaskFields) \ {TaskFields}}

\* Bodies with an empty string for a field, or a status outside the enum
BlankFieldBodies ==
    {[FullPatch EXCEPT ![f] = S(<<>>)] : f \in TaskFields}
      \cup {[FullPatch EXCEPT !.status = Pending]}

TaskBodies == ValidBodies \cup PartialBodies \cup BlankFieldBodies

\* Bodies whose title is at, or one off, a limit of the length of a title
\* (Title1 and Title2 have the minimal length)
TitleOfLength(n) == S(Repeat("a", n))
BoundaryTitleBodies ==
    [title : {TitleOfLength(n) : n \in {TitleMinLength - 1, TitleMinLength,
                                         TitleMaxLength, TitleMaxLength + 1}},
     description : {Description1, Description2},
     status : {OPEN, CLOSED, Pending},
     dueDate : {Date_01_01_2025}]

\* The query of a search: absent, empty, texts that occur in titles or
\* descriptions in another letter case, a text that occurs nowhere, and
\* texts with a character that $regex does not read literally
SearchInputs ==
    {Undefined, S(<<>>), S(<<"t", "A", "S", "K">>), S(<<"K", "2">>),
     S(<<"R", "E", "D", "O">>), S(<<"z", "z">>), S(<<"a", ".", "k">>),
     S(<<"(", "k">>)}

\* The status of a listing: absent, empty, the two statuses, another word
StatusFilterInputs == {Undefined, S(<<>>), OPEN, CLOSED, Pending}

\* Ids offered in a path or a body: those of created documents, a
\* well-formed id of no document, and a string that is no ObjectId.
TaskIdInputs == {NewTaskId(i) : i \in 1..MaxCreates} \cup {OID("t0"), MalformedId}
UserIdInputs == {u._id : u \in RegisteredUsers} \cup {UnknownUserId, MalformedId, Undefined}
AssignBodies ==
    {[f \in {"assignedTo"} \ (IF u = Undefined THEN {"assignedTo"} ELSE {}) |-> u] :
        u \in UserIdInputs}

\* The team the database holds from the start.  (POST /teams stores none for
\* an identity taken from the token, which has no _id; the teams collection
\* is persistent, and this is a document it already holds.)
TeamAlphaName == S(<<"A", "l", "p", "h", "a">>)
TeamBetaName == S(<<"B", "e", "t", "a">>)
SeededTeam == [_id |-> OID("g0"), name |-> TeamAlphaName,
               description |-> S(<<"d">>),
               members |-> {UserAnn._id}, createdBy |-> UserJohn._id]

\* A body with exactly the fields whose value is not undefined
BodyOf(fields) == [f \in {g \in DOMAIN fields : fields[g] # Undefined} |-> fields[f]]

TeamNameInputs == {Undefined, S(<<>>), S(<<"A", "l">>), TeamAlphaName, TeamBetaName}
TeamDescriptionInputs == {Undefined, S(<<"n", "e", "w">>)}
MemberEmailInputs ==
    {Undefined, Arr(<<>>), Arr(<<UserJohn.email>>),
     Arr(<<UserJohn.email, UserAnn.email>>), Arr(<<UserJohn.email, UnregisteredEmail>>),
     Arr(<<UnregisteredEmail>>), Arr(<<UserJohn.email, UserJohn.email>>)}
TeamBodies ==
    {BodyOf([name |-> n, description |-> d, memberEmails |-> e]) :
        n \in TeamNameInputs, d \in TeamDescriptionInputs, e \in MemberEmailInputs}
TeamIdInputs == {SeededTeam._id, OID("g9"), MalformedId}
                  \cup {NewTeamId(i) : i \in 1..MaxTeamCreates}
Identities == {TokenPayload(u) : u \in RegisteredUsers}

\* Bodies of a comment: two texts, an empty text, no text
MaxComments == 2
CommentBodies ==
    {BodyOf([text |-> t]) : t \in {S(<<"o", "k">>), S(<<"n", "o">>), S(<<>>), Undefined}}

----------------------------------------------------------------------------
(* The state machine *)

EmptyCollection == [i \in {} |-> Undefined]
NoRequest == [op |-> "none"]

\* Clients whose DELETE requests may overlap; a handler not yet called
Clients == {"c1", "c2"}
Idle == [pc |-> "idle"]

Init ==
    /\ users = RegisteredUsers
    /\ tasks = EmptyCollection
    /\ teams = Put(EmptyCollection, SeededTeam)
    /\ nextId = [tasks |-> 0, teams |-> 0]
    /\ req = NoRequest
    /\ resp = NoResponse
    /\ outbox = <<>>
    /\ pending = [c \in Clients |-> Idle]
    /\ now = 0
    /\ events = <<>>
    /\ globalCount = 0
    /\ taskArray = <<>>

\* The sendEmail calls of a handler, each with how the transport ended
Sent(mails, transport) ==
    [i \in 1..Len(mails) |-> [mail |-> mails[i], transport |-> transport]]
Deliverable(mails, transport) ==
    \A i \in 1..Len(mails) : transport \in TransportOutcomes(mails[i])

\* Create: POST /tasks
Create ==
    \E body \in TaskBodies :
        LET o == PostTask(tasks, nextId.tasks, body) IN
        /\ req = NoRequest
        /\ nextId.tasks < MaxCreates
        /\ req' = [op |-> "Create", body |-> body]
        /\ tasks' = o.tasks
        /\ resp' = o.resp
        /\ outbox' = <<>>
        /\ nextId' = IF o.resp.status = HTTP_CREATED
                     THEN [nextId EXCEPT !.tasks = @ + 1] ELSE nextId
        /\ UNCHANGED <<users, teams, pending, now, events, globalCount, taskArray>>

\* Update: PUT /tasks/:id
Update ==
    \E id \in TaskIdInputs, body \in TaskBodies, transport \in {"sent", "failed"} :
        LET o == PutTask(tasks, users, id, body, transport) IN
        /\ req = NoRequest
        /\ Deliverable(o.mails, transport)
        /\ req' = [op |-> "Update", id |-> id, body |-> body]
        /\ tasks' = o.tasks
        /\ resp' = o.resp
        /\ outbox' = Sent(o.mails, transport)
        /\ UNCHANGED <<users, teams, nextId, pending, now, events, globalCount, taskArray>>

\* Assign: PUT /tasks/:id/assign
Assign ==
    \E id \in TaskIdInputs, body \in AssignBodies, transport \in {"sent", "failed"} :
        LET o == AssignTask(tasks, users, id, body, transport) IN
        /\ req = NoRequest
        /\ Deliverable(o.mails, transport)
        /\ req' = [op |-> "Assign", id |-> id, body |-> body]
        /\ tasks' = o.tasks
        /\ resp' = o.resp
        /\ outbox' = Sent(o.mails, transport)
        /\ UNCHANGED <<users, teams, nextId, pending, now, events, globalCount, taskArray>>

\* Complete: PATCH /tasks/:id/complete
Complete ==
    \E id \in TaskIdInputs :
        LET o == CompleteTask(tasks, id) IN
        /\ req = NoRequest
        /\ req' = [op |-> "Complete", id |-> id]
        /\ tasks' = o.tasks
        /\ resp' = o.resp
        /\ outbox' = <<>>
        /\ UNCHANGED <<users, teams, nextId, pending, now, events, globalCount, taskArray>>

\* Get: GET /tasks/:id
Get ==
    \E id \in TaskIdInputs :
        LET o == GetTask(tasks, id) IN
        /\ req = NoRequest
        /\ req' = [op |-> "Get", id |-> id]
        /\ tasks' = o.tasks
        /\ resp' = o.resp
        /\ outbox' = <<>>
        /\ UNCHANGED <<users, teams, nextId, pending, now, events, globalCount, taskArray>>

\* Search: GET /tasks/search
Search ==
    \E query \in SearchInputs :
        LET o == SearchTasks(tasks, query) IN
        /\ req = NoRequest
        /\ req' = [op |-> "Search", query |-> query]
        /\ tasks' = o.tasks
        /\ resp' = o.resp
        /\ outbox' = <<>>
        /\ UNCHANGED <<users, teams, nextId, pending, now, events, globalCount, taskArray>>

\* List: GET /tasks
List ==
    \E status \in StatusFilterInputs :
        LET o == ListTasks(tasks, status) IN
        /\ req = NoRequest
        /\ req' = [op |-> "List", status |-> status]
        /\ tasks' = o.tasks
        /\ resp' = o.resp
        /\ outbox' = <<>>
        /\ UNCHANGED <<users, teams, nextId, pending, now, events, globalCount, taskArray>>

\* Delete: DELETE /tasks/:id
Delete ==
    \E id \in TaskIdInputs :
        LET o == DeleteTask(tasks, id) IN
        /\ req = NoRequest
        /\ req' = [op |-> "Delete", id |-> id]
        /\ tasks' = o.tasks
        /\ resp' = o.resp
        /\ outbox' = <<>>
        /\ UNCHANGED <<users, teams, nextId, pending, now, events, globalCount, taskArray>>

\* The response has gone out and the handler has returned: the next request
\* can be taken.  The collections stay as the handler left them.
EndRequest ==
    /\ req # NoRequest
    /\ req' = NoRequest
    /\ resp' = NoResponse
    /\ outbox' = <<>>
    /\ UNCHANGED <<users, tasks, teams, nextId, pending, now, events, globalCount, taskArray>>

Next ==
    \/ Create \/ Update \/ Assign \/ Complete \/ Get \/ Delete
    \/ Search \/ List
    \/ EndRequest

\* The task operations, one request at a time
Spec == Init /\ [][Next]_vars

\* DELETE /tasks/:id is two awaited store operations; between them the
\* handlers of other requests run.  These are its steps for a client c.

\* The handler up to the end of `await Task.findById(taskId)`
DeleteFindById(c) ==
    \E id \in TaskIdInputs :
        LET task == findById(tasks, id) IN
        /\ pending[c] = Idle
        /\ pending' = [pending EXCEPT ![c] =
              IF HasThrown(task) THEN [pc |-> "responded", id |-> id,
                                       resp |-> CatchResponse(task)]
              ELSE IF task = Null
                THEN [pc |-> "responded", id |-> id,
                      resp |-> Response(HTTP_NOT_FOUND, Text("TASK_NOT_FOUND(id)"))]
              ELSE [pc |-> "findByIdAndDelete", id |-> id]]
        /\ UNCHANGED <<users, tasks, teams, nextId, req, resp, outbox, now, events, globalCount, taskArray>>

\* `await Task.findByIdAndDelete(taskId)` and the response: the document
\* removed, or null when the collection holds none of that id any more
DeleteFindByIdAndDelete(c) ==
    /\ pending[c].pc = "findByIdAndDelete"
    /\ LET id == pending[c].id
           deletedTask == IF id \in DOMAIN tasks THEN tasks[id] ELSE Null
       IN /\ tasks' = Remove(tasks, id)
          /\ pending' = [pending EXCEPT ![c] =
                [pc |-> "responded", id |-> id,
                 resp |-> Response(HTTP_SUCCESS, deletedTask)]]
    /\ UNCHANGED <<users, teams, nextId, req, resp, outbox, now, events, globalCount, taskArray>>

\* The client has its response; it may send another request
DeleteReturn(c) ==
    /\ pending[c].pc = "responded"
    /\ pending' = [pending EXCEPT ![c] = Idle]
    /\ UNCHANGED <<users, tasks, teams, nextId, req, resp, outbox, now, events, globalCount, taskArray>>

DeleteNext ==
    \/ Create \/ Complete \/ EndRequest
    \/ \E c \in Clients :
         DeleteFindById(c) \/ DeleteFindByIdAndDelete(c) \/ DeleteReturn(c)

\* Overlapping DELETE requests, among creations and completions
SpecDelete == Init /\ [][DeleteNext]_vars

\* Comment: POST /tasks/:taskId/comments
Comment ==
    \E reqUser \in Identities, id \in TaskIdInputs, body \in CommentBodies :
        LET o == AddComment(tasks, reqUser, id, body) IN
        /\ req = NoRequest
        /\ id \in DOMAIN tasks => Len(tasks[id].comments) < MaxComments
        /\ req' = [op |-> "Comment", id |-> id, user |-> reqUser, body |-> body]
        /\ tasks' = o.tasks
        /\ resp' = o.resp
        /\ outbox' = <<>>
        /\ UNCHANGED <<users, teams, nextId, pending, now, events, globalCount, taskArray>>

\* Create, of one of two tasks to comment on
CreateForComments ==
    /\ Create
    /\ req'.body \in {FullPatch, [title |-> Title1, description |-> Description1,
                                  status |-> OPEN, dueDate |-> Date_01_01_2025]}

CommentNext == CreateForComments \/ Comment \/ EndRequest

\* Comments on the tasks created
SpecComment == Init /\ [][CommentNext]_vars

\* ---- Handlers that overlap ----
\* PUT /tasks/:id and POST /tasks/:taskId/comments read a task, change their
\* copy and save it: two awaited store operations each, between which the
\* handlers of other requests run.

\* The task the overlapping requests are about
RaceTaskIds == {NewTaskId(1)}
\* Payloads of overlapping updates: two valid ones that differ from each
\* other in title and status, and one whose title is blank
RaceUpdateBodies ==
    {[FullPatch EXCEPT !.title = Title1], [FullPatch EXCEPT !.status = OPEN],
     [FullPatch EXCEPT !.title = S(Repeat(" ", TitleMinLength))]}
RaceCommentBodies == {BodyOf([text |-> t]) : t \in {S(<<"o", "k">>), Undefined}}
\* Last tick of the clock
MaxClock == 1
\* Requests of this kind that the clients send
MaxRequests == 2
\* The client has had n responses and waits for nothing
Waiting(n) == [pc |-> "idle", served |-> n]
Served(c) == IF "served" \in DOMAIN pending[c] THEN pending[c].served ELSE 0
RECURSIVE SumOver(_, _)
SumOver(f, cs) ==
    IF cs = {} THEN 0
    ELSE LET c == CHOOSE x \in cs : TRUE IN f[c] + SumOver(f, cs \ {c})
\* Requests sent so far: those answered and those in progress
RequestsSent ==
    SumOver([c \in Clients |-> Served(c) + (IF pending[c].pc = "idle" THEN 0 ELSE 1)],
            Clients)
MaySend(c) == pending[c].pc = "idle" /\ RequestsSent < MaxRequests

\* PUT /tasks/:id, to the end of its findById
UpdateRead(c) ==
    \E id \in RaceTaskIds, body \in RaceUpdateBodies :
        LET r == PutTaskRead(tasks, id, body) IN
        /\ MaySend(c)
        /\ pending' = [pending EXCEPT ![c] =
              IF "resp" \in DOMAIN r
              THEN [pc |-> "responded", served |-> Served(c), op |-> "Update", id |-> id, body |-> body,
                    resp |-> r.resp, mails |-> <<>>]
              ELSE [pc |-> "save", served |-> Served(c), op |-> "Update", id |-> id, body |-> body,
                    doc |-> r.doc, paths |-> r.paths]]
        /\ UNCHANGED <<users, tasks, teams, nextId, req, resp, outbox, now, events, globalCount, taskArray>>

\* PUT /tasks/:id, its save() and what follows
UpdateSave(c) ==
    /\ pending[c].pc = "save" /\ pending[c].op = "Update"
    /\ LET o == PutTaskSave(tasks, pending[c].doc, pending[c].paths) IN
       /\ tasks' = o.tasks
       /\ pending' = [pending EXCEPT ![c] =
             [pc |-> "responded", served |-> Served(c), op |-> "Update", id |-> pending[c].id,
              body |-> pending[c].body, resp |-> o.resp, mails |-> o.mails]]
    /\ UNCHANGED <<users, teams, nextId, req, resp, outbox, now, events, globalCount, taskArray>>

\* POST /tasks/:taskId/comments, to the push; time may have passed since the
\* last request
CommentRead(c) ==
    \E reqUser \in {TokenPayload(UserJohn)}, id \in RaceTaskIds, body \in RaceCommentBodies,
       time \in now..(IF now < MaxClock THEN now + 1 ELSE now) :
        LET r == AddCommentRead(tasks, reqUser, id, body, time) IN
        /\ id \in DOMAIN tasks => Len(tasks[id].comments) < MaxComments
        /\ MaySend(c)
        /\ now' = time
        /\ pending' = [pending EXCEPT ![c] =
              IF "resp" \in DOMAIN r
              THEN [pc |-> "responded", served |-> Served(c), op |-> "Comment", id |-> id, body |-> body,
                    resp |-> r.resp, mails |-> <<>>]
              ELSE [pc |-> "save", served |-> Served(c), op |-> "Comment", id |-> id, body |-> body,
                    doc |-> r.doc, comment |-> r.comment]]
        /\ UNCHANGED <<users, tasks, teams, nextId, req, resp, outbox,
                       events, globalCount, taskArray>>

\* POST /tasks/:taskId/comments, its save() and the response
CommentSave(c) ==
    /\ pending[c].pc = "save" /\ pending[c].op = "Comment"
    /\ LET o == AddCommentSave(tasks, pending[c].doc, pending[c].comment) IN
       /\ tasks' = o.tasks
       /\ pending' = [pending EXCEPT ![c] =
             [pc |-> "responded", served |-> Served(c), op |-> "Comment", id |-> pending[c].id,
              body |-> pending[c].body, resp |-> o.resp, mails |-> o.mails]]
    /\ UNCHANGED <<users, teams, nextId, req, resp, outbox, now, events, globalCount, taskArray>>

\* The client has its response; it may send another request
Return(c) ==
    /\ pending[c].pc = "responded"
    /\ pending' = [pending EXCEPT ![c] = Waiting(Served(c) + 1)]
    /\ UNCHANGED <<users, tasks, teams, nextId, req, resp, outbox, now, events, globalCount, taskArray>>

\* The requests that are one store operation, on the task the others are about
CreateForRace == Create /\ req'.body = FullPatch
AssignForRace ==
    /\ Assign
    /\ req'.id = NewTaskId(1)
    /\ req'.body = [assignedTo |-> UserJohn._id]
    /\ \A i \in 1..Len(outbox') : outbox'[i].transport = "sent"
CompleteForRace == Complete /\ req'.id = NewTaskId(1)

RaceNext ==
    \/ CreateForRace \/ AssignForRace \/ CompleteForRace \/ EndRequest
    \/ \E c \in Clients :
         UpdateRead(c) \/ UpdateSave(c) \/ CommentRead(c) \/ CommentSave(c) \/ Return(c)

\* Updates and comments that overlap each other and the other requests
SpecRace == Init /\ [][RaceNext]_vars

\* Create with titles at the limits of the length: POST /tasks
CreateAtLimits ==
    \E body \in BoundaryTitleBodies :
        LET o == PostTask(tasks, nextId.tasks, body) IN
        /\ req = NoRequest
        /\ nextId.tasks < MaxCreates
        /\ req' = [op |-> "Create", body |-> body]
        /\ tasks' = o.tasks
        /\ resp' = o.resp
        /\ outbox' = <<>>
        /\ nextId' = IF o.resp.status = HTTP_CREATED
                     THEN [nextId EXCEPT !.tasks = @ + 1] ELSE nextId
        /\ UNCHANGED <<users, teams, pending, now, events, globalCount, taskArray>>

LimitsNext == CreateAtLimits \/ EndRequest

\* POST /tasks alone, with titles around the limits
SpecLimits == Init /\ [][LimitsNext]_vars

\* Payloads of white space, with white space around the text, too short, and
\* with a status outside the enum, next to two payloads that are stored
BlankTitle == S(Repeat(" ", TitleMinLength))
PaddedTitle == S(<<" ", "a", "b", "c", " ">>)
TextBodies ==
    {FullPatch,
     [FullPatch EXCEPT !.title = Title1, !.status = OPEN],
     [FullPatch EXCEPT !.title = BlankTitle],
     [FullPatch EXCEPT !.title = PaddedTitle],
     [FullPatch EXCEPT !.title = TitleOfLength(TitleMinLength - 1)],
     [FullPatch EXCEPT !.description = S(<<" ">>)],
     [FullPatch EXCEPT !.status = Pending]}

\* Create with those payloads: POST /tasks
CreateText ==
    \E body \in TextBodies :
        LET o == PostTask(tasks, nextId.tasks, body) IN
        /\ req = NoRequest
        /\ nextId.tasks < MaxCreates
        /\ req' = [op |-> "Create", body |-> body]
        /\ tasks' = o.tasks
        /\ resp' = o.resp
        /\ outbox' = <<>>
        /\ nextId' = IF o.resp.status = HTTP_CREATED
                     THEN [nextId EXCEPT !.tasks = @ + 1] ELSE nextId
        /\ UNCHANGED <<users, teams, pending, now, events, globalCount, taskArray>>

\* Update with those payloads: PUT /tasks/:id
UpdateText ==
    \E id \in TaskIdInputs, body \in TextBodies, transport \in {"sent"} :
        LET o == PutTask(tasks, users, id, body, transport) IN
        /\ req = NoRequest
        /\ Deliverable(o.mails, transport)
        /\ req' = [op |-> "Update", id |-> id, body |-> body]
        /\ tasks' = o.tasks
        /\ resp' = o.resp
        /\ outbox' = Sent(o.mails, transport)
        /\ UNCHANGED <<users, teams, nextId, pending, now, events, globalCount, taskArray>>

\* A comment by one caller with one text
CommentOk ==
    /\ Comment
    /\ req'.user = TokenPayload(UserJohn)
    /\ req'.body = BodyOf([text |-> S(<<"o", "k">>)])

\* An assignment to a stored user
AssignStoredUser == Assign /\ req'.body = [assignedTo |-> UserJohn._id]

TextNext ==
    \/ CreateText \/ UpdateText \/ AssignStoredUser \/ Complete \/ CommentOk \/ Delete
    \/ EndRequest

\* The six requests that write tasks, with payloads of white space
SpecText == Init /\ [][TextNext]_vars

\* ---- Requests, handlers and the transport as separate steps ----

\* A handler that awaits every send it starts
EverySendAwaited(mails) == DOMAIN mails

\* The sends whose end a handler awaits before it writes its response:
\* `sendEmail(mailOptions);` is called without await
AwaitedSends(mails) == {}

\* The requests a client sends
LiveRequests ==
    {[op |-> "Create", body |-> b] : b \in {FullPatch, [FullPatch EXCEPT !.title = BlankTitle]}}
    \cup {[op |-> "Update", id |-> i, body |-> b] :
             i \in {NewTaskId(1), MalformedId},
             b \in {FullPatch, [FullPatch EXCEPT !.title = Title1]}}
    \cup {[op |-> "Assign", id |-> NewTaskId(1), body |-> [assignedTo |-> u]] :
             u \in {UserJohn._id, MalformedId}}
    \cup {[op |-> o, id |-> NewTaskId(1)] : o \in {"Complete", "Get", "Delete"}}
    \cup {[op |-> "Comment", id |-> NewTaskId(1), user |-> TokenPayload(UserJohn),
           body |-> BodyOf([text |-> S(<<"o", "k">>)])]}
    \cup {[op |-> "List", status |-> OPEN], [op |-> "Search", query |-> S(<<"T">>)]}
    \cup {[op |-> "TeamCreate", user |-> TokenPayload(UserJohn),
           body |-> BodyOf([name |-> TeamAlphaName, description |-> Undefined,
                            memberEmails |-> Arr(<<UserJohn.email>>)])],
          [op |-> "TeamUpdate", user |-> TokenPayload(UserJohn), id |-> SeededTeam._id,
           body |-> BodyOf([name |-> TeamBetaName, description |-> Undefined,
                            memberEmails |-> Undefined])]}

\* What the handler of request r yields on the collections as they are
TaskHandlerOutcome(r) ==
    CASE r.op = "Create" -> PostTask(tasks, nextId.tasks, r.body)
      [] r.op = "Update" -> PutTask(tasks, users, r.id, r.body, "sending")
      [] r.op = "Assign" -> AssignTask(tasks, users, r.id, r.body, "sending")
      [] r.op = "Complete" -> CompleteTask(tasks, r.id)
      [] r.op = "Get" -> GetTask(tasks, r.id)
      [] r.op = "Delete" -> DeleteTask(tasks, r.id)
      [] r.op = "Comment" -> AddComment(tasks, r.user, r.id, r.body)
      [] r.op = "List" -> ListTasks(tasks, r.status)
      [] r.op = "Search" -> SearchTasks(tasks, r.query)
TeamHandlerOutcome(r) ==
    IF r.op = "TeamCreate" THEN PostTeam(teams, users, nextId.teams, r.user, r.body)
    ELSE PutTeam(teams, users, r.user, r.id, r.body)
IsTeamRequest(r) == r.op \in {"TeamCreate", "TeamUpdate"}

\* A request arrives and its handler runs to the statement that writes its
\* response; the mails it handed to sendEmail are with the transport
Handle ==
    \E r \in LiveRequests :
        /\ req = NoRequest /\ pending["c1"] = Idle
        /\ r.op = "Create" => nextId.tasks < MaxCreates
        /\ (r.op = "Comment" /\ r.id \in DOMAIN tasks)
           => Len(tasks[r.id].comments) < MaxComments
        /\ req' = r
        /\ resp' = NoResponse
        /\ IF IsTeamRequest(r)
           THEN LET o == TeamHandlerOutcome(r) IN
                /\ teams' = o.teams
                /\ pending' = [pending EXCEPT !["c1"] = [pc |-> "respond", resp |-> o.resp]]
                /\ outbox' = <<>>
                /\ UNCHANGED <<tasks, nextId>>
           ELSE LET o == TaskHandlerOutcome(r) IN
                /\ tasks' = o.tasks
                /\ pending' = [pending EXCEPT !["c1"] = [pc |-> "respond", resp |-> o.resp]]
                /\ outbox' = Sent(o.mails, "sending")
                /\ nextId' = IF r.op = "Create" /\ o.resp.status = HTTP_CREATED
                             THEN [nextId EXCEPT !.tasks = @ + 1] ELSE nextId
                /\ UNCHANGED teams
        /\ UNCHANGED <<users, now, events, globalCount, taskArray>>

\* The handler writes its response, once the sends it awaits have ended
Respond ==
    /\ pending["c1"].pc = "respond"
    /\ \A i \in AwaitedSends(outbox) : outbox[i].transport # "sending"
    /\ resp' = pending["c1"].resp
    /\ pending' = [pending EXCEPT !["c1"] = Idle]
    /\ UNCHANGED <<users, tasks, teams, nextId, req, outbox, now, events, globalCount, taskArray>>

\* transporter.sendMail ends for a mail, in delivery or in an error
TransportEnds ==
    \E i \in DOMAIN outbox, outcome \in {"sent", "failed"} :
        /\ outbox[i].transport = "sending"
        /\ outcome \in TransportOutcomes(outbox[i].mail)
        /\ outbox' = [outbox EXCEPT ![i].transport = outcome]
        /\ UNCHANGED <<users, tasks, teams, nextId, req, resp, pending, now, events, globalCount, taskArray>>

\* The client has its response; the next request can be taken
Answered ==
    /\ req # NoRequest /\ resp # NoResponse
    /\ req' = NoRequest
    /\ resp' = NoResponse
    /\ outbox' = <<>>
    /\ UNCHANGED <<users, tasks, teams, nextId, pending, now, events, globalCount, taskArray>>

LiveNext == Handle \/ Respond \/ TransportEnds \/ Answered

\* Requests one at a time.  The event loop goes on with a handler that can
\* write its response; nothing says that the transport ever ends a send.
SpecLive == Init /\ [][LiveNext]_vars /\ WF_vars(Respond)

\* Team.Create: POST /teams
TeamCreate ==
    \E reqUser \in Identities, body \in TeamBodies :
        LET o == PostTeam(teams, users, nextId.teams, reqUser, body) IN
        /\ req = NoRequest
        /\ nextId.teams < MaxTeamCreates
        /\ req' = [op |-> "TeamCreate", user |-> reqUser, body |-> body]
        /\ teams' = o.teams
        /\ resp' = o.resp
        /\ nextId' = IF o.resp.status = HTTP_CREATED
                     THEN [nextId EXCEPT !.teams = @ + 1] ELSE nextId
        /\ UNCHANGED <<users, tasks, outbox, pending, now, events, globalCount, taskArray>>

\* Team.Update: PUT /teams/:id
TeamUpdate ==
    \E reqUser \in Identities, id \in TeamIdInputs, body \in TeamBodies :
        LET o == PutTeam(teams, users, reqUser, id, body) IN
        /\ req = NoRequest
        /\ req' = [op |-> "TeamUpdate", user |-> reqUser, id |-> id, body |-> body]
        /\ teams' = o.teams
        /\ resp' = o.resp
        /\ UNCHANGED <<users, tasks, nextId, outbox, pending, now, events, globalCount, taskArray>>

TeamNext == TeamCreate \/ TeamUpdate \/ EndRequest

\* The team operations, one request at a time
SpecTeam == Init /\ [][TeamNext]_vars

----------------------------------------------------------------------------
(* validateTask on its own, over bodies with every kind of field value *)

Spaces(n) == S(Repeat(" ", n))
Letters(n) == S(Repeat("x", n))

ValidatorTitles ==
    {Undefined, S(<<>>), Spaces(6), Letters(TitleMinLength - 1), Title1,
     Letters(TitleMaxLength), Letters(TitleMaxLength + 1)}
ValidatorDescriptions ==
    {Undefined, Spaces(2), Description1, Letters(DescriptionMaxLength),
     Letters(DescriptionMaxLength + 1)}
ValidatorStatuses == {Undefined, S(<<>>), Spaces(1), Pending, OPEN, CLOSED}
ValidatorDueDates ==
    {Undefined, S(<<>>), Spaces(3), Date_01_01_2025, Date_31_02_2025,
     S(<<"0", "1", "-", "0", "1">>),
     S(<<"a", "b", "-", "0", "1", "-", "2", "0", "2", "5">>),
     S(<<"0", "1", "-", "1", "3", "-", "2", "0", "2", "5">>),
     S(<<"3", "2", "-", "0", "1", "-", "2", "0", "2", "5">>),
     S(<<"0", "0", "-", "0", "1", "-", "2", "0", "2", "5">>)}
ValidatorBodies ==
    {BodyOf([title |-> t, description |-> d, status |-> st, dueDate |-> dd]) :
        t \in ValidatorTitles, d \in ValidatorDescriptions,
        st \in ValidatorStatuses, dd \in ValidatorDueDates}

\* validateTask as the middleware of a request: it answers 400, or calls next()
Validate ==
    \E body \in ValidatorBodies :
        /\ req = NoRequest
        /\ req' = [op |-> "validateTask", body |-> body]
        /\ resp' = IF validateTask(body) = PassedToNext THEN NextCalled
                   ELSE Response(HTTP_BAD_REQUEST, Text(validateTask(body)))
        /\ UNCHANGED <<users, tasks, teams, nextId, outbox, pending, now, events, globalCount, taskArray>>

ValidateNext == Validate \/ EndRequest

\* The validator alone
SpecValidate == Init /\ [][ValidateNext]_vars

----------------------------------------------------------------------------
(* event-management/controller/eventcontroller.js: events kept in an array *)

\* parseInt(string): the decimal digits the string begins with after white
\* space, NaN when it begins with none
RECURSIVE LeadingDigits(_)
LeadingDigits(s) ==
    IF s # <<>> /\ IsDigit(Head(s)) THEN <<Head(s)>> \o LeadingDigits(Tail(s)) ELSE <<>>
parseInt(s) ==
    LET digits == LeadingDigits(TrimLeft(s.str)) IN
    IF digits = <<>> THEN NaN ELSE Num(DecimalValue(digits, 0))

ROLE_ORGANIZER == "organizer"
EventTitleMinLength == 3
EventTitleMaxLength == 100

\* validateRequestBodyForEvents, for bodies whose organizer, date and time
\* are absent or well-formed and whose date is in the future: the status
\* 400 it answers with, or next()
validateRequestBodyForEvents(body, users_) ==
    LET title == Field(body, "title")
        BadRequest(text) == Response(HTTP_BAD_REQUEST, Text(text))
    IN IF ~Truthy(Field(body, "organizer")) THEN BadRequest("ERROR_EMAIL_FORMAT")
       ELSE IF \A u \in users_ : u.email # body.organizer
         THEN BadRequest("ERROR_INVALID_EMAIL_ORGANIZER")
       ELSE IF ~Truthy(title) THEN BadRequest("ERROR_TITLE_MANDATORY")
       ELSE IF Len(title.str) > EventTitleMaxLength THEN BadRequest("ERROR_TITLE_TOO_LONG")
       ELSE IF Len(title.str) < EventTitleMinLength THEN BadRequest("ERROR_TITLE_TOO_SHORT")
       ELSE IF ~Truthy(Field(body, "date")) THEN BadRequest("ERROR_DATE_MANDATORY")
       ELSE IF ~Truthy(Field(body, "time")) THEN BadRequest("ERROR_TIME_MANDATORY")
       ELSE NextCalled

AccessDenied == Response(HTTP_FORBIDDEN, Text("Access Denied"))
NoEventFound == Response(HTTP_NOT_FOUND, Text("No event found with event id"))

\* What a handler of the event controller yields
EventOutcome(array, count, response) ==
    [events |-> array, globalCount |-> count, resp |-> response]

\* An object with property f set to v, added if the object lacks it
WithProperty(object, f, v) ==
    [g \in DOMAIN object \cup {f} |-> IF g = f THEN v ELSE object[g]]

\* events.findIndex((event) => event.id === parseInt(eventId)): the first
\* index whose event has that number as its id, 0 for -1
findIndexById(array, id) ==
    LET wanted == parseInt(id)
        hits == {i \in 1..Len(array) : wanted # NaN /\ Field(array[i], "id") = wanted}
    IN IF hits = {} THEN 0 ELSE CHOOSE i \in hits : \A k \in hits : i <= k

\* array.splice(index, 1): the array without the element at index
Splice(array, index) ==
    [i \in 1..(Len(array) - 1) |-> IF i < index THEN array[i] ELSE array[i + 1]]

\* GET /events/:id
GetEvent(array, count, id) ==
    IF findIndexById(array, id) = 0 THEN EventOutcome(array, count, NoEventFound)
    ELSE EventOutcome(array, count, Response(HTTP_SUCCESS, array[findIndexById(array, id)]))

\* POST /events: extractRole, validateRequestBodyForEvents, the handler
PostEvent(array, count, users_, role, body) ==
    LET event == WithProperty(WithProperty(body, "id", Num(count + 1)),
                              "eventDateTime", <<body.date, body.time>>)
    IN IF validateRequestBodyForEvents(body, users_) # NextCalled
       THEN EventOutcome(array, count, validateRequestBodyForEvents(body, users_))
       ELSE IF role # ROLE_ORGANIZER THEN EventOutcome(array, count, AccessDenied)
       ELSE EventOutcome(Append(array, event), count + 1, Response(HTTP_SUCCESS, event))

\* PUT /events/:id: the element is replaced by the request body as sent
PutEvent(array, count, users_, role, id, body) ==
    LET eventIndex == findIndexById(array, id)
    IN IF validateRequestBodyForEvents(body, users_) # NextCalled
       THEN EventOutcome(array, count, validateRequestBodyForEvents(body, users_))
       ELSE IF role # ROLE_ORGANIZER THEN EventOutcome(array, count, AccessDenied)
       ELSE IF eventIndex = 0 THEN EventOutcome(array, count, NoEventFound)
       ELSE EventOutcome([array EXCEPT ![eventIndex] = body], count,
                         Response(HTTP_SUCCESS, body))

\* DELETE /events/:id
DeleteEvent(array, count, role, id) ==
    LET eventIndex == findIndexById(array, id)
    IN IF role # ROLE_ORGANIZER THEN EventOutcome(array, count, AccessDenied)
       ELSE IF eventIndex = 0 THEN EventOutcome(array, count, NoEventFound)
       ELSE EventOutcome(Splice(array, eventIndex), count,
                         Response(HTTP_SUCCESS, Arr(<<array[eventIndex]>>)))

\* Events that may be created in a run
MaxEvents == 2

Roles == {ROLE_ORGANIZER, "attendee"}
EventPathIds == {S(<<Digits[n + 1]>>) : n \in 1..MaxEvents} \cup {S(<<"x">>)}
\* Bodies of POST and PUT: with and without a title, and with the id of an
\* event as a client that sends back what it was given has it
EventBodies ==
    {BodyOf([title |-> t, date |-> S(<<"0", "1", "-", "0", "1", "-", "2", "0", "9", "9">>),
             time |-> S(<<"1", "0", ":", "0", "0">>),
             organizer |-> UserJohn.email, id |-> i]) :
        t \in {S(<<"a", "b", "c">>), S(<<"d", "e", "f">>), Undefined},
        i \in {Undefined} \cup {Num(n) : n \in 1..MaxEvents}}

EventPost ==
    \E role \in Roles, body \in EventBodies :
        LET o == PostEvent(events, globalCount, users, role, body) IN
        /\ req = NoRequest
        /\ globalCount < MaxEvents
        /\ req' = [op |-> "EventPost", role |-> role, body |-> body]
        /\ events' = o.events
        /\ globalCount' = o.globalCount
        /\ resp' = o.resp
        /\ UNCHANGED <<users, tasks, teams, nextId, outbox, pending, now, taskArray>>

EventPut ==
    \E role \in Roles, id \in EventPathIds, body \in EventBodies :
        LET o == PutEvent(events, globalCount, users, role, id, body) IN
        /\ req = NoRequest
        /\ req' = [op |-> "EventPut", role |-> role, id |-> id, body |-> body]
        /\ events' = o.events
        /\ globalCount' = o.globalCount
        /\ resp' = o.resp
        /\ UNCHANGED <<users, tasks, teams, nextId, outbox, pending, now, taskArray>>

EventDelete ==
    \E role \in Roles, id \in EventPathIds :
        LET o == DeleteEvent(events, globalCount, role, id) IN
        /\ req = NoRequest
        /\ req' = [op |-> "EventDelete", role |-> role, id |-> id]
        /\ events' = o.events
        /\ globalCount' = o.globalCount
        /\ resp' = o.resp
        /\ UNCHANGED <<users, tasks, teams, nextId, outbox, pending, now, taskArray>>

EventGet ==
    \E id \in EventPathIds :
        LET o == GetEvent(events, globalCount, id) IN
        /\ req = NoRequest
        /\ req' = [op |-> "EventGet", id |-> id]
        /\ events' = o.events
        /\ globalCount' = o.globalCount
        /\ resp' = o.resp
        /\ UNCHANGED <<users, tasks, teams, nextId, outbox, pending, now, taskArray>>

EventNext == EventPost \/ EventPut \/ EventDelete \/ EventGet \/ EndRequest

\* The event controller, one request at a time
SpecEvents == Init /\ [][EventNext]_vars

----------------------------------------------------------------------------
(* task-manager: controller/taskcontroller.js and helpers/validator.js,    *)
(* tasks kept in an array                                                  *)

Bool(b) == [bool |-> b]
IsBoolean(v) == "bool" \in DOMAIN v
IsNumber(v) == "num" \in DOMAIN v

\* Validator.validateObjectTypeAndProperties(taskinfo, method)
validateObjectTypeAndProperties(taskinfo, method) ==
    IF /\ method \in {"PUT", "POST"}
       /\ {"title", "description", "completed"} \subseteq DOMAIN taskinfo
       /\ IsString(taskinfo.title)
       /\ IsString(taskinfo.description)
       /\ IsBoolean(taskinfo.completed)
       /\ Truthy(taskinfo.description)
       /\ Truthy(taskinfo.title)
    THEN ~(method = "POST" /\ "id" \in DOMAIN taskinfo)
    ELSE FALSE

\* taskIds.sort((a, b) => b - a): the numbers in descending order
RECURSIVE SortDescending(_)
SortDescending(taskIds) ==
    IF taskIds = <<>> THEN <<>>
    ELSE LET top == CHOOSE k \in 1..Len(taskIds) :
                        \A l \in 1..Len(taskIds) : taskIds[l].num <= taskIds[k].num
         IN <<taskIds[top]>>
            \o SortDescending([l \in 1..(Len(taskIds) - 1) |->
                                 IF l < top THEN taskIds[l] ELSE taskIds[l + 1]])

\* An id taken from the number of tasks stored
getIdFromLength(taskIds) == Num(Len(taskIds) + 1)

\* getLargestId(taskIds): one more than the first of the ids sorted
getLargestId(taskIds) == Num(SortDescending(taskIds)[1].num + 1)

\* What a handler of the task-manager controller yields
ArrayOutcome(array, response) == [tasks |-> array, resp |-> response]

ResourceNotFound == Response(HTTP_NOT_FOUND, Text("RESOURCE_NOT_FOUND"))

\* GET /v1/tasks/:id
GetV1Task(array, id) ==
    IF findIndexById(array, id) = 0
    THEN ArrayOutcome(array, Response(HTTP_NOT_FOUND, Text("TASK_NOT_FOUND(id)")))
    ELSE ArrayOutcome(array, Response(HTTP_SUCCESS, array[findIndexById(array, id)]))

\* POST /v1/tasks
PostV1Task(array, body) ==
    LET id == IF Len(array) = 0 THEN Num(1)
              ELSE getLargestId([k \in 1..Len(array) |-> array[k].id])
        task == WithProperty(body, "id", id)
    IN IF validateObjectTypeAndProperties(body, "POST")
       THEN ArrayOutcome(Append(array, task), Response(HTTP_CREATED, task))
       ELSE ArrayOutcome(array, Response(HTTP_BAD_REQUEST, Text("VALIDATION_FAILED_CREATE")))

\* PUT /v1/tasks/:id
PutV1Task(array, id, body) ==
    LET taskToUpdateIndex == findIndexById(array, id)
        task == WithProperty(body, "id", parseInt(id))
    IN IF taskToUpdateIndex = 0 THEN ArrayOutcome(array, ResourceNotFound)
       ELSE IF validateObjectTypeAndProperties(body, "PUT")
         THEN ArrayOutcome([array EXCEPT ![taskToUpdateIndex] = task],
                           Response(HTTP_SUCCESS, task))
       ELSE ArrayOutcome(array, Response(HTTP_BAD_REQUEST, Text("VALIDATION_FAILED_UPDATE")))

\* DELETE /v1/tasks/:id
DeleteV1Task(array, id) ==
    LET taskIndexToDelete == findIndexById(array, id)
    IN IF taskIndexToDelete = 0 THEN ArrayOutcome(array, ResourceNotFound)
       ELSE ArrayOutcome(Splice(array, taskIndexToDelete),
                         Response(HTTP_SUCCESS, Arr(<<array[taskIndexToDelete]>>)))

\* Largest id given to a task in a run
MaxTaskId == 3

\* Path ids: the ids that may be stored, one with text after the digits, and
\* one that is no number
V1PathIds ==
    {S(<<Digits[n + 1]>>) : n \in 1..MaxTaskId} \cup {S(<<"1", "x">>), S(<<"x">>)}
\* Bodies of POST and PUT: complete, without a title, with a title that is a
\* number, and with an id
V1Bodies ==
    {BodyOf([title |-> t, description |-> S(<<"d">>), completed |-> Bool(c), id |-> i]) :
        t \in {S(<<"a">>), Undefined, Num(5)}, c \in BOOLEAN,
        i \in {Undefined, Num(1), Num(MaxTaskId + 4)}}

V1Post ==
    \E body \in V1Bodies :
        LET o == PostV1Task(taskArray, body) IN
        /\ req = NoRequest
        /\ \A k \in 1..Len(taskArray) : taskArray[k].id.num < MaxTaskId
        /\ req' = [op |-> "V1Post", body |-> body]
        /\ taskArray' = o.tasks
        /\ resp' = o.resp
        /\ UNCHANGED <<users, tasks, teams, nextId, outbox, pending, now, events, globalCount>>

V1Put ==
    \E id \in V1PathIds, body \in V1Bodies :
        LET o == PutV1Task(taskArray, id, body) IN
        /\ req = NoRequest
        /\ req' = [op |-> "V1Put", id |-> id, body |-> body]
        /\ taskArray' = o.tasks
        /\ resp' = o.resp
        /\ UNCHANGED <<users, tasks, teams, nextId, outbox, pending, now, events, globalCount>>

V1Delete ==
    \E id \in V1PathIds :
        LET o == DeleteV1Task(taskArray, id) IN
        /\ req = NoRequest
        /\ req' = [op |-> "V1Delete", id |-> id]
        /\ taskArray' = o.tasks
        /\ resp' = o.resp
        /\ UNCHANGED <<users, tasks, teams, nextId, outbox, pending, now, events, globalCount>>

V1Get ==
    \E id \in V1PathIds :
        LET o == GetV1Task(taskArray, id) IN
        /\ req = NoRequest
        /\ req' = [op |-> "V1Get", id |-> id]
        /\ taskArray' = o.tasks
        /\ resp' = o.resp
        /\ UNCHANGED <<users, tasks, teams, nextId, outbox, pending, now, events, globalCount>>

V1Next == V1Post \/ V1Put \/ V1Delete \/ V1Get \/ EndRequest

\* The task-manager controller, one request at a time
SpecV1 == Init /\ [][V1Next]_vars

----------------------------------------------------------------------------
(* Properties *)

\* A step in which the handler of operation op answers a request
Handles(op) == req = NoRequest /\ req'.op = op

\* Day, month and year as written in a due-date string
WrittenDMY(dueDate) ==
    LET parts == Split(dueDate.str, "-")
    IN <<Number(parts[1]).num, Number(parts[2]).num, Number(parts[3]).num>>
DMY(date) == <<date.d, date.m, date.y>>

\* ---- C1 ----
CreatedAsGiven ==
    /\ resp'.status = HTTP_CREATED
    /\ \E id \in DOMAIN tasks' \ DOMAIN tasks :
         /\ DOMAIN tasks' = DOMAIN tasks \cup {id}
         /\ tasks'[id].title = req'.body.title
         /\ tasks'[id].description = req'.body.description
         /\ tasks'[id].status = req'.body.status
         /\ DMY(tasks'[id].dueDate) = WrittenDMY(req'.body.dueDate)
         /\ tasks'[id].assignedTo = Undefined
         /\ tasks'[id].comments = <<>>
         /\ resp'.body = tasks'[id]
    /\ \A j \in DOMAIN tasks : tasks'[j] = tasks[j]

\* C1: Create with a payload that validateTask accepts and whose title no
\* stored task has succeeds, stores exactly one new task whose title,
\* description, status and due date (day/month/year) equal the input, with no
\* assignee and no comments, returns that task and changes no other task.
C1_CreateStoresInput ==
    [][(/\ Handles("Create")
        /\ validateTask(req'.body) = PassedToNext
        /\ \A i \in DOMAIN tasks : tasks[i].title # req'.body.title)
       => CreatedAsGiven]_vars

\* ---- C2 ----
\* The rules of the Task Validator in their required order, and the reason
\* of the first one a body violates ("accept" when there is none)
StrictDayMonthYear(str) ==
    /\ Len(str) = 10
    /\ \A i \in 1..10 : IF i \in {3, 6} THEN str[i] = "-" ELSE IsDigit(str[i])
    /\ WrittenDMY(S(str))[1] \in 1..31
    /\ WrittenDMY(S(str))[2] \in 1..12
BlankOrAbsent(v) == v = Undefined \/ Trim(v.str) = <<>>
FirstViolatedRule(body) ==
    LET title == Field(body, "title")
        description == Field(body, "description")
        status == Field(body, "status")
        dueDate == Field(body, "dueDate")
    IN IF BlankOrAbsent(title) THEN "title-missing"
       ELSE IF Len(title.str) \notin 5..100 THEN "title-length"
       ELSE IF BlankOrAbsent(description) THEN "description-missing"
       ELSE IF Len(description.str) > 1000 THEN "description-length"
       ELSE IF BlankOrAbsent(status) THEN "status-missing"
       ELSE IF status \notin {OPEN, CLOSED} THEN "status-invalid"
       ELSE IF BlankOrAbsent(dueDate) THEN "due-date-missing"
       ELSE IF ~StrictDayMonthYear(dueDate.str) THEN "due-date-malformed"
       ELSE "accept"
\* The reason a response of validateTask states
ReasonGiven(response) ==
    IF response = NextCalled THEN "accept"
    ELSE LET text == response.body.text
         IN CASE text = MsgTitleBlank -> "title-missing"
              [] text = MsgTitleLength -> "title-length"
              [] text = MsgDescriptionBlank -> "description-missing"
              [] text = MsgDescriptionLength -> "description-length"
              [] text = MsgStatusBlank -> "status-missing"
              [] text = MsgStatusInvalid -> "status-invalid"
              [] text = MsgDueDateBlank -> "due-date-missing"
              [] text \in {MsgDueDateFormat, MsgDueDateInvalid} -> "due-date-malformed"

\* C2: validateTask rejects with the reason of the first violated rule in the
\* order title-missing, title-length, description-missing, description-length,
\* status-missing, status-invalid, due-date-missing, due-date-malformed, and
\* accepts exactly when no rule is violated (so a blank or absent status
\* after a valid title and description is status-missing).
C2_FirstViolatedRuleWins ==
    req.op = "validateTask" => ReasonGiven(resp) = FirstViolatedRule(req.body)

C4_AssignOrBadRequest ==
    [][(Handles("Assign") /\ req'.id \in DOMAIN tasks)
       => LET assignee == Field(req'.body, "assignedTo")
          IN IF \E u \in users : u._id = assignee
             THEN /\ tasks' = [tasks EXCEPT ![req'.id].assignedTo = assignee]
                  /\ resp' = Response(HTTP_SUCCESS, tasks'[req'.id])
                  /\ Len(outbox') = 1
                  /\ outbox'[1].mail.subject = SubjectAssignment
                  /\ \E u \in users : u._id = assignee /\ outbox'[1].mail.to = u.email
             ELSE /\ resp'.status = HTTP_BAD_REQUEST
                  /\ tasks' = tasks
                  /\ outbox' = <<>>]_vars

\* ---- C5 ----
\* C5: Update of a stored task with a body in which some of title,
\* description, status, dueDate are empty or absent keeps the stored value
\* of each such field and replaces the fields that are present and non-empty.
C5_UpdateKeepsEmptyFields ==
    [][(/\ Handles("Update")
        /\ req'.id \in DOMAIN tasks
        /\ \E f \in TaskFields : ~Truthy(Field(req'.body, f)))
       => /\ req'.id \in DOMAIN tasks'
          /\ \A f \in TaskFields :
               IF ~Truthy(Field(req'.body, f))
               THEN tasks'[req'.id][f] = tasks[req'.id][f]
               ELSE IF f = "dueDate"
                 THEN DMY(tasks'[req'.id][f]) = WrittenDMY(req'.body[f])
               ELSE tasks'[req'.id][f] = req'.body[f]]_vars

\* ---- C6 ----
\* C6: Team.Update of a stored team by an identity whose id differs from the
\* team's createdBy answers Forbidden and leaves the team's name,
\* description, members and createdBy as they were, whatever the patch.
C6_NonOwnerForbidden ==
    [][(/\ Handles("TeamUpdate")
        /\ req'.id \in DOMAIN teams
        /\ req'.user.id # teams[req'.id].createdBy)
       => /\ resp'.status = HTTP_FORBIDDEN
          /\ req'.id \in DOMAIN teams'
          /\ teams'[req'.id].name = teams[req'.id].name
          /\ teams'[req'.id].description = teams[req'.id].description
          /\ teams'[req'.id].members = teams[req'.id].members
          /\ teams'[req'.id].createdBy = teams[req'.id].createdBy]_vars

\* A non-owner has sent a patch with a new name for a stored team and was
\* refused
C6_Witness ==
    /\ req.op = "TeamUpdate"
    /\ req.id \in DOMAIN teams
    /\ req.user.id # teams[req.id].createdBy
    /\ Field(req.body, "name") = TeamBetaName
    /\ resp.status = HTTP_FORBIDDEN

\* ---- C7 ----
\* The emails of a memberEmails array
EmailsOf(memberEmails) == {memberEmails.arr[i] : i \in 1..Len(memberEmails.arr)}

\* C7: Team.Create by an identity {id, email, firstName, lastName} with a
\* name no team has and memberEmails that all belong to stored users stores
\* one team whose createdBy is the identity's id and whose members are the
\* ids of those users.  (Stated for names the schema admits and for emails
\* listed once.)
C7_TeamCreateStoresOwner ==
    [][(/\ Handles("TeamCreate")
        /\ Truthy(Field(req'.body, "name"))
        /\ Len(Field(req'.body, "name").str) \in TeamNameMinLength..TeamNameMaxLength
        /\ \A i \in DOMAIN teams : teams[i].name # req'.body.name
        /\ Field(req'.body, "memberEmails") # Undefined
        /\ EmailsOf(req'.body.memberEmails) \subseteq {u.email : u \in users}
        /\ Cardinality(EmailsOf(req'.body.memberEmails)) = Len(req'.body.memberEmails.arr))
       => /\ resp'.status = HTTP_CREATED
          /\ \E id \in DOMAIN teams' \ DOMAIN teams :
               /\ DOMAIN teams' = DOMAIN teams \cup {id}
               /\ teams'[id].createdBy = req'.user.id
               /\ teams'[id].members =
                    {u._id : u \in {v \in users : v.email \in EmailsOf(req'.body.memberEmails)}}]_vars

\* ---- C8 ----
HasUnregisteredEmail(body) ==
    /\ Field(body, "memberEmails") # Undefined
    /\ \E e \in EmailsOf(body.memberEmails) : e \notin {u.email : u \in users}

\* C8 as stated: Team.Create whose memberEmails holds an email of no stored
\* user answers NotFound and stores no team.
C8_UnregisteredEmailNotFound ==
    [][(Handles("TeamCreate") /\ HasUnregisteredEmail(req'.body))
       => (resp'.status = HTTP_NOT_FOUND /\ teams' = teams)]_vars

\* C8, amended: Team.Create with a non-empty name whose memberEmails holds
\* an email of no stored user answers NotFound and stores no team, however
\* many of the other emails resolve.
C8_NamedUnregisteredEmailNotFound ==
    [][(/\ Handles("TeamCreate")
        /\ Truthy(Field(req'.body, "name"))
        /\ HasUnregisteredEmail(req'.body))
       => (resp'.status = HTTP_NOT_FOUND /\ teams' = teams)]_vars

\* A Team.Create naming a registered and an unregistered email was refused
\* with NotFound
C8_Witness ==
    /\ req.op = "TeamCreate"
    /\ Truthy(Field(req.body, "name"))
    /\ HasUnregisteredEmail(req.body)
    /\ \E e \in EmailsOf(req.body.memberEmails) : e \in {u.email : u \in users}
    /\ resp.status = HTTP_NOT_FOUND

\* ---- C9 ----
\* What the request asked for is in the stored task
MutationStands(request, task) ==
    IF request.op = "Assign" THEN task.assignedTo = request.body.assignedTo
    ELSE /\ task.title = request.body.title
         /\ task.description = request.body.description
         /\ task.status = request.body.status
         /\ task.dueDate = parseDate(request.body.dueDate)
\* The handler's outcome for a request, had the transport ended as given
OutcomeWith(request, transport) ==
    IF request.op = "Assign"
    THEN AssignTask(tasks, users, request.id, request.body, transport)
    ELSE PutTask(tasks, users, request.id, request.body, transport)

\* C9: when the send of an Assign's or Update's mail fails, the caller still
\* gets the success response with the updated task, the mutation is stored,
\* and response and store are what they are when the send succeeds.
C9_SendFailureAbsorbed ==
    [][(/\ Handles("Assign") \/ Handles("Update")
        /\ outbox' # <<>>
        /\ outbox'[1].transport = "failed")
       => /\ resp'.status = HTTP_SUCCESS
          /\ req'.id \in DOMAIN tasks'
          /\ resp'.body = tasks'[req'.id]
          /\ MutationStands(req', tasks'[req'.id])
          /\ resp' = OutcomeWith(req', "sent").resp
          /\ tasks' = OutcomeWith(req', "sent").tasks]_vars

\* An Assign whose mail the transport failed to send was answered
C9_Witness ==
    /\ req.op = "Assign"
    /\ outbox # <<>>
    /\ outbox[1].transport = "failed"
    /\ resp.status = HTTP_SUCCESS
    /\ tasks[req.id].assignedTo = req.body.assignedTo

\* ---- C10 ----
\* C10: a successful Update of a task with an assignee sends exactly one
\* "updated" mail whose recipient is the email of the assignee user; a
\* successful Update of a task without assignee sends none.
C10_UpdateMailToAssignee ==
    (req.op = "Update" /\ resp.status = HTTP_SUCCESS)
    => IF resp.body.assignedTo # Undefined
       THEN /\ Len(outbox) = 1
            /\ outbox[1].mail.subject = SubjectUpdate
            /\ \E u \in users :
                 u._id = resp.body.assignedTo /\ outbox[1].mail.to = u.email
       ELSE outbox = <<>>

\* ---- C11 ----
\* The request was refused by the Task Validator: 400 with the text of a rule
ValidationError(response, reason) ==
    response = Response(HTTP_BAD_REQUEST, Text(reason))
\* The body has the four fields, the last three of them valid
ValidButTitle(body) ==
    /\ DOMAIN body = TaskFields
    /\ validateTask([body EXCEPT !.title = Title1]) = PassedToNext
ValidButStatus(body) ==
    /\ DOMAIN body = TaskFields
    /\ validateTask([body EXCEPT !.status = OPEN]) = PassedToNext

\* C11: Create with a title of 4 or of 101 characters, or with a status that
\* is neither open nor closed, is refused with a ValidationError and stores
\* no task; Create with a title of 5 or of 100 characters that no task has,
\* the other fields valid, is accepted and stores the task.
C11_CreateBoundaries ==
    [][(Handles("Create") /\ DOMAIN req'.body = TaskFields)
       => /\ (/\ IsString(req'.body.title)
              /\ Len(req'.body.title.str) \in {TitleMinLength - 1, TitleMaxLength + 1})
             => (ValidationError(resp', MsgTitleLength) /\ tasks' = tasks)
          /\ (/\ ValidButStatus(req'.body)
              /\ req'.body.status \notin TaskStatus
              /\ ~isEmpty(req'.body.status))
             => (ValidationError(resp', MsgStatusInvalid) /\ tasks' = tasks)
          /\ (/\ ValidButTitle(req'.body)
              /\ Len(req'.body.title.str) \in {TitleMinLength, TitleMaxLength}
              /\ \A i \in DOMAIN tasks : tasks[i].title # req'.body.title)
             => /\ resp'.status = HTTP_CREATED
                /\ \E id \in DOMAIN tasks' \ DOMAIN tasks :
                     tasks'[id].title = req'.body.title]_vars

\* A title of 101 characters was refused where a task with a title of 100
\* characters had been stored
C11_Witness ==
    /\ req.op = "Create"
    /\ IsString(Field(req.body, "title"))
    /\ Len(req.body.title.str) = TitleMaxLength + 1
    /\ resp.status = HTTP_BAD_REQUEST
    /\ \E i \in DOMAIN tasks : Len(tasks[i].title.str) = TitleMaxLength

\* ---- C12 ----
\* text occurs in str as a substring, letter case ignored
ContainsIgnoringCase(text, str) ==
    \E at \in 1..(Len(str) - Len(text) + 1) :
        \A j \in 1..Len(text) : ToLowerCase(text[j]) = ToLowerCase(str[at + j - 1])
\* The stored tasks whose title or description contains the text
TasksContaining(text) ==
    {tasks[i] : i \in {k \in DOMAIN tasks :
        \/ ContainsIgnoringCase(text, tasks[k].title.str)
        \/ ContainsIgnoringCase(text, tasks[k].description.str)}}
\* The documents of a response whose body is an array
Returned(response) == {response.body.arr[i] : i \in 1..Len(response.body.arr)}

\* C12: Search with a non-empty text returns exactly the stored tasks whose
\* title or description contains the text as a substring, letter case
\* ignored, and NoResults when there is none; Search with an empty text is a
\* BadRequest.  Search changes no task.
C12_SearchIsSubstringMatch ==
    [][Handles("Search")
       => /\ tasks' = tasks
          /\ IF ~Truthy(req'.query) THEN resp'.status = HTTP_BAD_REQUEST
             ELSE IF TasksContaining(req'.query.str) = {}
               THEN resp'.status = HTTP_NOT_FOUND
             ELSE /\ resp'.status = HTTP_SUCCESS
                  /\ Returned(resp') = TasksContaining(req'.query.str)
                  /\ Len(resp'.body.arr) = Cardinality(TasksContaining(req'.query.str))]_vars

\* ---- C15 ----
\* The stored tasks a listing by that status is to return: those of that
\* status, all of them when no status is given (absent or empty)
TasksOfStatus(status) ==
    {tasks[i] : i \in {k \in DOMAIN tasks : Truthy(status) => tasks[k].status = status}}

\* C15: List returns exactly the stored tasks whose status is the one asked
\* for, all stored tasks when none is asked for, and NoResults exactly when
\* there is no such task; a status other than open and closed is a
\* BadRequest.  List changes no task.
C15_ListByStatus ==
    [][Handles("List")
       => /\ tasks' = tasks
          /\ IF Truthy(req'.status) /\ req'.status \notin TaskStatus
             THEN resp'.status = HTTP_BAD_REQUEST
             ELSE IF TasksOfStatus(req'.status) = {}
               THEN resp'.status = HTTP_NOT_FOUND
             ELSE /\ resp'.status = HTTP_SUCCESS
                  /\ Returned(resp') = TasksOfStatus(req'.status)
                  /\ Len(resp'.body.arr) = Cardinality(TasksOfStatus(req'.status))]_vars

\* A listing of the closed tasks returned one task and left out an open one
C15_Witness ==
    /\ req.op = "List"
    /\ req.status = CLOSED
    /\ resp.status = HTTP_SUCCESS
    /\ Len(resp.body.arr) = 1
    /\ \E i \in DOMAIN tasks : tasks[i].status = OPEN

\* ---- C13 ----
\* Client c has just been answered by its DELETE handler
DeleteAnswers(c) == pending[c].pc # "responded" /\ pending'[c].pc = "responded"

\* C13: under any interleaving of the steps of DELETE handlers with each
\* other and with other operations, a Delete that reports success returns
\* the task it removed from the store, and Get of that id is NotFound
\* afterwards; a Delete of an id that no task has is NotFound.
C13_DeleteReturnsRemoved ==
    [][\A c \in Clients :
        (DeleteAnswers(c) /\ ObjectIdIsValid(pending'[c].id))
        => LET id == pending'[c].id
               answer == pending'[c].resp
           IN /\ answer.status = HTTP_SUCCESS
                 => /\ id \in DOMAIN tasks
                    /\ answer.body = tasks[id]
                    /\ id \notin DOMAIN tasks'
                    /\ GetTask(tasks', id).resp.status = HTTP_NOT_FOUND
              /\ (pending[c] = Idle /\ id \notin DOMAIN tasks)
                 => (answer.status = HTTP_NOT_FOUND /\ tasks' = tasks)]_vars

CarriesSomething(body) ==
    \/ Truthy(Field(body, "name"))
    \/ Truthy(Field(body, "description"))
    \/ Field(body, "memberEmails") # Undefined
\* The patch can be applied to the team of that id: its emails, if any, are
\* those of stored users, each listed once, and its name, if any, is one the
\* schema admits and no other team has
Applicable(body, id) ==
    /\ Field(body, "memberEmails") # Undefined
       => /\ EmailsOf(body.memberEmails) \subseteq {u.email : u \in users}
          /\ Cardinality(EmailsOf(body.memberEmails)) = Len(body.memberEmails.arr)
    /\ Truthy(Field(body, "name"))
       => /\ Len(body.name.str) \in TeamNameMinLength..TeamNameMaxLength
          /\ \A i \in DOMAIN teams \ {id} : teams[i].name # body.name
\* The team with the fields of the patch put in
Patched(team, body) ==
    [team EXCEPT
       !.name = IF Truthy(Field(body, "name")) THEN body.name ELSE @,
       !.description = IF Truthy(Field(body, "description")) THEN body.description ELSE @,
       !.members = IF Field(body, "memberEmails") # Undefined
                   THEN {u._id : u \in {v \in users : v.email \in EmailsOf(body.memberEmails)}}
                   ELSE @]

\* C16: Team.Update of a stored team by the identity whose id is the team's
\* createdBy, with a patch that carries at least one of name, description
\* and memberEmails (all emails registered), is not denied, changes exactly
\* the fields the patch carries and returns the updated team.
C16_OwnerMayUpdate ==
    [][(/\ Handles("TeamUpdate")
        /\ req'.id \in DOMAIN teams
        /\ req'.user.id = teams[req'.id].createdBy
        /\ CarriesSomething(req'.body)
        /\ Applicable(req'.body, req'.id))
       => /\ resp'.status = HTTP_SUCCESS
          /\ teams' = [teams EXCEPT ![req'.id] = Patched(@, req'.body)]
          /\ resp'.body = teams'[req'.id]]_vars

C18_EmptyPatchBadRequest ==
    [][(/\ Handles("TeamUpdate")
        /\ ObjectIdIsValid(req'.id)
        /\ ~CarriesSomething(req'.body))
       => (resp'.status = HTTP_BAD_REQUEST /\ teams' = teams)]_vars

\* ---- C19 ----
\* The response reports an error of the caller's request, not Internal
ReportsDuplicateKey(response) == response.status \in 400..499

\* C19: a Create with a valid payload whose title a stored task has, and a
\* Team.Create with a name a stored team has (its emails registered), are
\* answered with a DuplicateKey error, distinct from Internal, and store
\* nothing.
C19_DuplicateKeyReported ==
    [][/\ (/\ Handles("Create")
           /\ validateTask(req'.body) = PassedToNext
           /\ \E i \in DOMAIN tasks : tasks[i].title = req'.body.title)
          => (ReportsDuplicateKey(resp') /\ tasks' = tasks)
       /\ (/\ Handles("TeamCreate")
           /\ Truthy(Field(req'.body, "name"))
           /\ \E i \in DOMAIN teams : teams[i].name = req'.body.name
           /\ Field(req'.body, "memberEmails") # Undefined
           /\ ~HasUnregisteredEmail(req'.body)
           /\ Cardinality(EmailsOf(req'.body.memberEmails)) = Len(req'.body.memberEmails.arr))
          => (ReportsDuplicateKey(resp') /\ teams' = teams)]_vars

IsPrefixOf(s, t) == Len(s) <= Len(t) /\ SubSeq(t, 1, Len(s)) = s

\* The save() of client c's comment has just been answered with 201
CommentSaved(c) ==
    /\ pending[c].pc = "save" /\ pending[c].op = "Comment"
    /\ pending'[c].pc = "responded"
    /\ pending'[c].resp.status = HTTP_CREATED

\* C21: in every step of updates, assignments, completions and comments that
\* overlap, each stored task stays stored and the comments it had are the
\* beginning of the comments it has; a comment whose save succeeds is put
\* after the comments stored at that moment, whatever the copy the handler
\* read held.
C21_CommentsOnlyGrow ==
    [][/\ \A id \in DOMAIN tasks :
            id \in DOMAIN tasks' /\ IsPrefixOf(tasks[id].comments, tasks'[id].comments)
       /\ \A c \in Clients :
            CommentSaved(c)
            => tasks'[pending[c].id].comments =
                 Append(tasks[pending[c].id].comments, pending[c].comment)]_vars

\* Two comments overlapped: the response to the one saved last carries the
\* copy its handler read plus its own comment, the stored task has both
C21_Witness ==
    \E c \in Clients :
        /\ pending[c].pc = "responded" /\ pending[c].op = "Comment"
        /\ pending[c].resp.status = HTTP_CREATED
        /\ Len(pending[c].resp.body.comments) = 1
        /\ pending[c].id \in DOMAIN tasks
        /\ Len(tasks[pending[c].id].comments) = 2
        /\ tasks[pending[c].id].comments[2] = pending[c].resp.body.comments[1]

\* ---- C22 ----
\* C22: the creation timestamps of the comments of every stored task are
\* non-decreasing in the order of the sequence, also when the handlers of
\* two comments overlap.
C22_TimestampsNonDecreasing ==
    \A id \in DOMAIN tasks :
        \A i \in 1..(Len(tasks[id].comments) - 1) :
            tasks[id].comments[i].createdAt <= tasks[id].comments[i + 1].createdAt

\* ---- C23 ----
\* The save() of client c's update has just been answered with 200
UpdateSaved(c) ==
    /\ pending[c].pc = "save" /\ pending[c].op = "Update"
    /\ pending'[c].pc = "responded"
    /\ pending'[c].resp.status = HTTP_SUCCESS

\* Client d's update of that task was answered with 200
UpdateAnswered(d, id) ==
    /\ pending[d].pc = "responded" /\ pending[d].op = "Update"
    /\ pending[d].id = id
    /\ pending[d].resp.status = HTTP_SUCCESS

\* C23: when an update of a task is saved and answered with 200 while
\* another client's update of the same task has been answered with 200,
\* the stored title, description, status and dueDate are all those of the
\* payload saved last.
C23_LastUpdateWinsWhole ==
    [][\A c, d \in Clients :
          (c # d /\ UpdateSaved(c) /\ UpdateAnswered(d, pending[c].id))
          => \A f \in {"title", "description", "status", "dueDate"} :
                 tasks'[pending[c].id][f] = pending[c].doc[f]]_vars

\* ---- C24 ----
\* C24: every stored task has a status of the enum, a title that does not
\* trim to the empty string and has 5 to 100 characters, and a description
\* that does not trim to the empty string and has at most 1000 characters.
C24_StoredTasksValid ==
    \A id \in DOMAIN tasks :
        /\ tasks[id].status \in {OPEN, CLOSED}
        /\ IsString(tasks[id].title) /\ Trim(tasks[id].title.str) # <<>>
        /\ Len(tasks[id].title.str) \in TitleMinLength..TitleMaxLength
        /\ IsString(tasks[id].description) /\ Trim(tasks[id].description.str) # <<>>
        /\ Len(tasks[id].description.str) <= DescriptionMaxLength

\* A task is stored with an assignee, a comment and a title given with white
\* space around it, after a payload of white space only was refused for it
C24_Witness ==
    /\ req.op = "Update" /\ req.id \in DOMAIN tasks
    /\ req.body.title = BlankTitle
    /\ resp.status = HTTP_BAD_REQUEST
    /\ tasks[req.id].title = PaddedTitle
    /\ tasks[req.id].assignedTo # Undefined
    /\ Len(tasks[req.id].comments) > 0

C27_OnlyAssignChangesAssignee ==
    [][\A id \in DOMAIN tasks :
          /\ id \in DOMAIN tasks'
          /\ tasks'[id].assignedTo # tasks[id].assignedTo
             => (Handles("Assign") /\ req'.id = id
                 /\ tasks'[id].assignedTo = req'.body.assignedTo)]_vars

\* An update that read the task before it was assigned has saved a change
\* after the assignment: its response shows no assignee, the store has one
C27_Witness ==
    \E c \in Clients :
        /\ pending[c].pc = "responded" /\ pending[c].op = "Update"
        /\ pending[c].resp.status = HTTP_SUCCESS
        /\ pending[c].resp.body.assignedTo = Undefined
        /\ pending[c].id \in DOMAIN tasks
        /\ tasks[pending[c].id].title = pending[c].resp.body.title
        /\ tasks[pending[c].id].title # FullPatch.title
        /\ tasks[pending[c].id].assignedTo = UserJohn._id

\* ---- C28 ----
\* C28: Team.Create and Team.Update answer 404 "Some members not found" only
\* to a request whose memberEmails holds an email of no stored user.
C28_NotFoundOnlyForUnregistered ==
    [][(/\ Handles("TeamCreate") \/ Handles("TeamUpdate")
        /\ resp' = Response(HTTP_NOT_FOUND, Text("Some members not found")))
       => HasUnregisteredEmail(req'.body)]_vars

EventIds == [i \in 1..Len(events) |-> Field(events[i], "id")]

\* C29: after a PUT /events/:id answered with 200 a GET of that id is
\* answered with 200 and the body that was put, and in every state the ids
\* of the stored events differ from each other.
C29_PutKeepsEventUnderId ==
    /\ [][(Handles("EventPut") /\ resp'.status = HTTP_SUCCESS)
          => LET got == GetEvent(events', globalCount', req'.id).resp IN
             /\ got.status = HTTP_SUCCESS
             /\ \A f \in DOMAIN req'.body \ {"id"} : Field(got.body, f) = req'.body[f]]_vars
    /\ [](\A i, j \in 1..Len(events) : i # j => EventIds[i] # EventIds[j])

\* ---- C30 ----
\* The ids of the tasks in the array
StoredIds == {taskArray[k].id : k \in 1..Len(taskArray)}

\* C30: the tasks of the array have numbers as ids, no two the same; a POST
\* answered with 201 adds one task at the end, whose id is 1 when the array
\* was empty and one more than the largest id otherwise; a POST whose body
\* has an id is answered with 400 and adds nothing; a PUT answered with 200
\* replaces the task whose id is the number of the path, and the task that
\* replaces it has that id.
C30_IdsDistinct ==
    /\ [](/\ \A k \in 1..Len(taskArray) : IsNumber(taskArray[k].id)
          /\ Cardinality(StoredIds) = Len(taskArray))
    /\ [][/\ (Handles("V1Post") /\ resp'.status = HTTP_CREATED)
             => /\ Len(taskArray') = Len(taskArray) + 1
                /\ SubSeq(taskArray', 1, Len(taskArray)) = taskArray
                /\ LET id == taskArray'[Len(taskArray')].id IN
                   /\ id \notin StoredIds
                   /\ IF taskArray = <<>> THEN id = Num(1)
                      ELSE \E i \in StoredIds :
                              /\ \A k \in StoredIds : k.num <= i.num
                              /\ id = Num(i.num + 1)
          /\ (Handles("V1Post") /\ "id" \in DOMAIN req'.body)
             => (resp'.status = HTTP_BAD_REQUEST /\ taskArray' = taskArray)
          /\ (Handles("V1Put") /\ resp'.status = HTTP_SUCCESS)
             => \E k \in 1..Len(taskArray) :
                   /\ taskArray[k].id = parseInt(req'.id)
                   /\ taskArray' = [taskArray EXCEPT ![k] = taskArray'[k]]
                   /\ taskArray'[k].id = taskArray[k].id
                   /\ taskArray'[k].title = req'.body.title]_vars

\* After the task with the smaller id was deleted, a created task has got
\* the id after the largest one stored
C30_Witness ==
    /\ req.op = "V1Post"
    /\ resp.status = HTTP_CREATED
    /\ Len(taskArray) = 2
    /\ taskArray[1].id = Num(2)
    /\ taskArray[2].id = Num(3)

============================================================================
